---- MODULE Spec2Model ----
(***************************************************************************)
(* Constrained sequence generation of dex-codes/ffmpeg-processor.          *)
(*                                                                         *)
(* Four builders are modelled, each from its source:                       *)
(*   "generate_sequence"           RealWorldItemGenerator.generate_sequence *)
(*                                 (sequence_generator.py, strict, gated)  *)
(*   "generate_sequence_flexible"  RealWorldItemGenerator                  *)
(*                                 .generate_sequence_flexible (strict)    *)
(*   "generate_spaced_sequence"    generate_my_sequence.py, called from    *)
(*                                 generate_sequence_with_custom_mapping   *)
(*                                 (relaxed: best-effort fallback)         *)
(*   "ItemSequenceGenerator"       ItemSequenceGenerator.generate_sequence  *)
(*                                 (item_generator.py, strict, no cap)     *)
(* One behaviour is one call: Init draws the arguments and the pool, the   *)
(* actions are the steps of the called function.                           *)
(*                                                                         *)
(* The components around the builders have a specification each:           *)
(*   AnalyzerSpec    analyze_feasibility of sequence_generator.py and of   *)
(*                   item_generator.py                                     *)
(*   LoaderSpec      load_clips_from_csv_flexible, load_clips_from_csv and *)
(*                   the two exporters of sequence_generator.py            *)
(*   SimilaritySpec  calculate_sequence_similarity of item_generator_v2.py *)
(*   JobSpec         JobManager of job_manager.py                          *)
(*   JobFairSpec     the same with a fair event loop                       *)
(*   DownloadSpec    download_video_from_drive of batch_video_processor.py *)
(*   VariationSpec   HighVariationItemGenerator of item_generator_v2.py    *)
(*   VideoSpec       process_video_sequence of video_processor.py          *)
(***************************************************************************)
EXTENDS Integers, Sequences, FiniteSets, TLC

\* ------------------------------------------------------------------ bounds
MaxCategories == 3      \* at most this many primary-attribute values
MaxItems == 4           \* at most this many inventory items in a pool
MaxLen == 4             \* requested sequence_length ranges over 0..MaxLen
MaxSpacing == 2         \* min_spacing ranges over 0..MaxSpacing
MaxAttempts == 2        \* the max_attempts argument of the strict builders
SpacedAttemptLimit == 2 \* stands for range(100) in generate_spaced_sequence

CategoryNames == <<"a", "b", "c", "d", "e">>

\* The target_categories arguments tried: 1 to MaxCategories primary values.
TargetCategoryChoices == {SubSeq(CategoryNames, 1, n) : n \in 1..MaxCategories}

Builders == {"generate_sequence", "generate_sequence_flexible",
             "generate_spaced_sequence", "ItemSequenceGenerator"}

VARIABLES
    builder,           \* which entry point this call is
    target_categories, \* ordered primary-attribute values of the request
    category_data,     \* category -> variation -> number of items (the pool)
    min_spacing,       \* self.min_spacing / min_spacing argument
    sequence_length,   \* requested length
    max_attempts,      \* attempt budget of the strict builders
    pc,                \* position in the called function
    feasibility,       \* local 'feasibility' of generate_sequence, or NoReport
    target_length,     \* working target (clamped by the relaxed builder)
    attempt,           \* number of attempts begun so far
    sequence,          \* local 'sequence' of the running attempt
    remaining_items,   \* local 'remaining_items' of the strict builders
    available_clips,   \* local 'available_clips' of generate_spaced_sequence
    item_list,         \* local 'available_items' of ItemSequenceGenerator
    category_counts,   \* local 'category_counts' of the strict builders
    result,            \* the returned list
    error,             \* the exception raised, "" if none
    best_effort,       \* TRUE iff the best-effort branch produced 'result'
    reports,           \* what the calls of analyze_feasibility returned, in order
    analysis,          \* what item_generator.analyze_feasibility returned
    csv_header,        \* the CSV file: its column names, in order
    csv_rows,          \* the CSV file: its data lines, in order
    variable_filters,  \* the variable_filters argument, in key order
    load_entry,        \* which loader was called
    load_pc,           \* position in the loader / exporter
    row_no,            \* number of data lines read so far
    filtered_clips,    \* local 'filtered_clips' of the loader
    clip_inventory,    \* self.clip_inventory: key tuple -> clip details
    nested_data,       \* what load_clips_from_csv_flexible returned
    loaded_category_data, \* what load_clips_from_csv returned
    export_sequence,   \* the sequence argument of the exporter
    exported_rows,     \* the data rows the exporter wrote, in order
    seq1,              \* first argument of calculate_sequence_similarity
    seq2,              \* second argument of calculate_sequence_similarity
    similarity,        \* what calculate_sequence_similarity returned or raised
    max_concurrent_jobs, \* JobManager.max_concurrent_jobs
    jobs,              \* JobManager.jobs: job id -> JobInfo
    job_semaphore,     \* free slots of JobManager.job_semaphore
    tasks,             \* the execute_job coroutines: their job and position
    running_tasks,     \* JobManager.running_tasks: job id -> task
    call_result,       \* number of cancel_job and cleanup_old_jobs calls, and
                       \* what the last one was and returned
    jobs_created,      \* number of job ids handed out so far
    failed_downloads,  \* BatchVideoProcessor.failed_downloads
    retry_attempts,    \* BatchVideoProcessor.retry_attempts: file id -> count
    download_call,     \* the download_video_from_drive call under way or ended
    previous_sequences, \* HighVariationItemGenerator.previous_sequences
    variation_call,    \* the generate_high_variation_sequence call under way or ended
    input_files,       \* argument of process_video_sequence
    futures,           \* convert_videos_parallel: the state of each conversion
    converted_files,   \* convert_videos_parallel: the list it builds
    video_call         \* position and result of the process_video_sequence call

vars == <<builder, target_categories, category_data, min_spacing,
          sequence_length, max_attempts, pc, feasibility, target_length,
          attempt, sequence, remaining_items, available_clips,
          item_list, category_counts, result, error, best_effort,
          reports, analysis, csv_header, csv_rows, variable_filters,
          load_entry, load_pc, row_no, filtered_clips, clip_inventory,
          nested_data, loaded_category_data, export_sequence, exported_rows,
          seq1, seq2, similarity, max_concurrent_jobs, jobs, job_semaphore,
          tasks, running_tasks, call_result, jobs_created, failed_downloads,
          retry_attempts, download_call, previous_sequences, variation_call,
          input_files, futures, converted_files, video_call>>

\* The analyzer calls recorded outside a builder call.
analyzer_vars == <<reports, analysis>>

\* The CSV file, the loader's position and results, the exporter's output.
loader_vars == <<csv_header, csv_rows, variable_filters, load_entry, load_pc,
                 row_no, filtered_clips, clip_inventory, nested_data,
                 loaded_category_data, export_sequence, exported_rows>>

\* State of the components a builder call never touches.
similarity_vars == <<seq1, seq2, similarity>>

job_vars == <<max_concurrent_jobs, jobs, job_semaphore, tasks, running_tasks,
              call_result, jobs_created>>

\* The batch downloader, the high-variation generator, the video pipeline.
download_vars == <<failed_downloads, retry_attempts, download_call>>

variation_vars == <<previous_sequences, variation_call>>

video_vars == <<input_files, futures, converted_files, video_call>>

media_vars == <<download_vars, variation_vars, video_vars>>

other_modules == <<similarity_vars, job_vars, media_vars>>

other_components == <<analyzer_vars, loader_vars, other_modules>>

\* The arguments and the pool of a builder call, which no step of a builder
\* assigns, with the state of the other components.
inputs == <<builder, target_categories, category_data, min_spacing,
            sequence_length, max_attempts, other_components>>

\* No analyzer call was made outside the builder call.
NoAnalysis == [called |-> FALSE]

AnalyzerIdle ==
    /\ reports = <<>>
    /\ analysis = NoAnalysis

\* No file was loaded: __init__ leaves clip_inventory empty.
LoaderNotCalled ==
    /\ csv_header = <<>>
    /\ csv_rows = <<>>
    /\ variable_filters = <<>>
    /\ load_entry = "none"
    /\ load_pc = "idle"
    /\ row_no = 0
    /\ filtered_clips = <<>>
    /\ nested_data = <<>>
    /\ loaded_category_data = <<>>
    /\ export_sequence = <<>>
    /\ exported_rows = <<>>

LoaderIdle == LoaderNotCalled /\ clip_inventory = <<>>

\* calculate_sequence_similarity was not called.
NoSimilarity == [called |-> FALSE]

SimilarityIdle ==
    /\ seq1 = <<>>
    /\ seq2 = <<>>
    /\ similarity = NoSimilarity

\* No JobManager was constructed.
JobManagerIdle ==
    /\ max_concurrent_jobs = 0
    /\ jobs = <<>>
    /\ job_semaphore = 0
    /\ tasks = <<>>
    /\ running_tasks = <<>>
    /\ call_result = [calls |-> 0, op |-> "none"]
    /\ jobs_created = 0

\* No BatchVideoProcessor was constructed.
DownloaderIdle ==
    /\ failed_downloads = {}
    /\ retry_attempts = <<>>
    /\ download_call = [pc |-> "none"]

\* No HighVariationItemGenerator was constructed.
VariationIdle ==
    /\ previous_sequences = <<>>
    /\ variation_call = [pc |-> "none"]

\* process_video_sequence was not called.
VideoIdle ==
    /\ input_files = <<>>
    /\ futures = <<>>
    /\ converted_files = <<>>
    /\ video_call = [pc |-> "none"]

MediaIdle == DownloaderIdle /\ VariationIdle /\ VideoIdle

OtherModulesIdle == SimilarityIdle /\ JobManagerIdle /\ MediaIdle

\* ----------------------------------------------------------------- helpers
Range(s) == {s[i] : i \in 1..Len(s)}

Min(a, b) == IF a < b THEN a ELSE b

Max(a, b) == IF a > b THEN a ELSE b

RECURSIVE SumSeq(_)
SumSeq(s) == IF s = <<>> THEN 0 ELSE Head(s) + SumSeq(Tail(s))

\* The allowed_variations argument (colour index 1 of load_clips_from_csv).
AllowedVariations == <<1>>

\* Every ordering of a finite set: the outcomes of random.shuffle.
Shuffles(S) ==
    {p \in [1..Cardinality(S) -> S] : \A i, j \in 1..Cardinality(S) : p[i] = p[j] => i = j}

\* item[0] in the source: the primary-attribute value of an item tuple.
Primary(item) == item[1]

\* ------------------------------------------------- pool and candidate list
\* sum(self.category_data[category].get(var, 0) for var in allowed_variations)
Available(cd, category, variations) ==
    SumSeq([i \in 1..Len(variations) |-> cd[category][variations[i]]])

TotalAvailable(cd, categories, variations) ==
    SumSeq([i \in 1..Len(categories) |-> Available(cd, categories[i], variations)])

\* _generate_available_items: the (category, item_id, variation) tuples, one
\* per item_id in 1..count.  The source builds a list; its order is erased by
\* the shuffle that follows, and its entries are distinct, so it is a set here.
generate_available_items(cd, categories, variations) ==
    UNION {{<<categories[i], item_id, variations[j]>> :
                item_id \in 1..cd[categories[i]][variations[j]]} :
           i \in 1..Len(categories), j \in 1..Len(variations)}

\* _generate_available_items_flexible over a two-level filter
\* {'category': [...], 'color': [...]}: (category, color, item_id) tuples.
generate_available_items_flexible(nested, categories, variations) ==
    UNION {{<<categories[i], variations[j], item_id>> :
                item_id \in 1..nested[categories[i]][variations[j]]} :
           i \in 1..Len(categories), j \in 1..Len(variations)}

\* clips_by_category of generate_sequence_with_custom_mapping: only categories
\* that have a clip get a key.  A clip is <<category, k, v>>; (k, v) stands
\* for its unique_id and name.
clips_by_category(cd, categories, variations) ==
    [c \in {d \in Range(categories) : Available(cd, d, variations) > 0} |->
        {<<c, k, variations[j]>> : j \in 1..Len(variations), k \in 1..MaxItems}
        \cap generate_available_items(cd, categories, variations)]

\* all_clips of generate_spaced_sequence (order erased by the shuffles).
all_clips(cbc) == UNION {cbc[c] : c \in DOMAIN cbc}

\* ------------------------------------------------------ feasibility analyzer
NoReport == [called |-> FALSE]

\* Variant of _get_feasibility_recommendation whose GOOD and MARGINAL
\* thresholds are inclusive (>= 1.5, >= 1.2).
get_feasibility_recommendation_inclusive(feasible, min_available, n, L) ==
    IF feasible
    THEN IF L = 0 \/ min_available * n > 2 * L THEN "EXCELLENT"
         ELSE IF 2 * min_available * n >= 3 * L THEN "GOOD"
         ELSE IF 5 * min_available * n >= 6 * L THEN "MARGINAL"
         ELSE "RISKY"
    ELSE "IMPOSSIBLE"

\* _get_feasibility_recommendation.  safety_ratio = available / needed with
\* needed = sequence_length / num_categories, compared in exact arithmetic:
\* ratio > 2.0 <=> a*n > 2*L, ratio > 1.5 <=> 2*a*n > 3*L,
\* ratio > 1.2 <=> 5*a*n > 6*L; needed = 0 gives ratio inf.
get_feasibility_recommendation(feasible, min_available, n, L) ==
    IF feasible
    THEN IF L = 0 \/ min_available * n > 2 * L THEN "EXCELLENT"
         ELSE IF 2 * min_available * n > 3 * L THEN "GOOD"
         ELSE IF 5 * min_available * n > 6 * L THEN "MARGINAL"
         ELSE "RISKY"
    ELSE "IMPOSSIBLE"

\* Variant of the per-category test that needs only the floor of the even
\* share (sequence_length // num_categories).
category_feasible_floor(available, n, L) == available >= L \div n

\* 'feasible = available >= needed' with needed = sequence_length /
\* num_categories (float): available >= L / n <=> available * n >= L.
category_feasible(available, n, L) == available * n >= L

\* analyze_feasibility
analyze_feasibility(cd, categories, variations, L) ==
    LET n == Len(categories)
        avail(c) == Available(cd, c, variations)
        total == TotalAvailable(cd, categories, variations)
        bottlenecks == {c \in Range(categories) : ~category_feasible(avail(c), n, L)}
        min_avail == CHOOSE m \in {avail(c) : c \in Range(categories)} :
                        \A c \in Range(categories) : m <= avail(c)
    IN  [called |-> TRUE,
         basic_feasible |-> total >= L,
         all_categories_feasible |-> bottlenecks = {},
         total_available |-> total,
         total_needed |-> L,
         bottleneck_categories |-> bottlenecks,
         recommendation |->
             get_feasibility_recommendation(bottlenecks = {}, min_avail, n, L),
         \* the names the IMPOSSIBLE text carries: ', '.join(bottlenecks)
         recommendation_names |->
             SelectSeq(categories, LAMBDA c : c \in bottlenecks)]

\* --------------------------------------------------------- placement checks
\* Variant of _can_place_item whose window starts one position late
\* (len(sequence) - min_spacing + 1): it inspects min_spacing - 1 items.
can_place_item_short_window(seq, candidate_item, ms) ==
    IF Len(seq) = 0 THEN TRUE
    ELSE \A i \in Max(0, Len(seq) - ms + 1) .. (Len(seq) - 1) :
            Primary(seq[i + 1]) # Primary(candidate_item)

\* _can_place_item: range(max(0, len(sequence) - min_spacing), len(sequence))
\* are 0-based indices; sequence[i] is seq[i + 1] here.
can_place_item(seq, candidate_item, ms) ==
    IF Len(seq) = 0 THEN TRUE
    ELSE \A i \in Max(0, Len(seq) - ms) .. (Len(seq) - 1) :
            Primary(seq[i + 1]) # Primary(candidate_item)

\* Variant of _can_place_item_flexible whose window starts one position
\* early: it always inspects the last placed item.
can_place_item_flexible_wide_window(seq, candidate_item, ms) ==
    IF Len(seq) = 0 THEN TRUE
    ELSE \A i \in Max(0, Len(seq) - ms - 1) .. (Len(seq) - 1) :
            Primary(seq[i + 1]) # Primary(candidate_item)

\* _can_place_item_flexible: the same body on arbitrary-arity tuples.
can_place_item_flexible(seq, candidate_item, ms) ==
    IF Len(seq) = 0 THEN TRUE
    ELSE \A i \in Max(0, Len(seq) - ms) .. (Len(seq) - 1) :
            Primary(seq[i + 1]) # Primary(candidate_item)

\* can_place_clip: check_positions = min(len(sequence), min_spacing);
\* sequence[-(i+1)] for i in range(check_positions) is seq[Len(seq) - i].
can_place_clip(seq, clip, ms) ==
    IF Len(seq) = 0 THEN TRUE
    ELSE \A i \in 0 .. (Min(Len(seq), ms) - 1) :
            Primary(seq[Len(seq) - i]) # Primary(clip)

\* _check_spacing_violations: pairs (i, j), 0-based, i < j <= i + min_spacing,
\* that hold the same primary value.
check_spacing_violations(seq, ms) ==
    {<<i, j>> \in (0 .. Len(seq) - 1) \X (0 .. Len(seq) - 1) :
        /\ j \in (i + 1) .. (Min(i + ms + 1, Len(seq)) - 1)
        /\ Primary(seq[j + 1]) = Primary(seq[i + 1])}

\* ItemSequenceGenerator._can_place_item (item_generator.py): the same
\* window as RealWorldItemGenerator._can_place_item.
isg_can_place_item(seq, candidate_item, ms) ==
    IF Len(seq) = 0 THEN TRUE
    ELSE \A i \in Max(0, Len(seq) - ms) .. (Len(seq) - 1) :
            Primary(seq[i + 1]) # Primary(candidate_item)

\* ------------------------------------------------------------ initial state
\* Pools over the requested categories: every count table with at most
\* MaxItems items in all.
Pools(categories) ==
    {cd \in [Range(categories) -> [Range(AllowedVariations) -> 0..MaxItems]] :
        TotalAvailable(cd, categories, AllowedVariations) <= MaxItems}

\* ItemSequenceGenerator holds items_per_category items in each of its own
\* categories and none in a target category it was not built with: its
\* pools are the count tables whose non-zero counts are all the same.
UniformPools(categories) ==
    {cd \in Pools(categories) :
        \A c, d \in Range(categories) :
            (cd[c] # <<0>> /\ cd[d] # <<0>>) => cd[c] = cd[d]}

ZeroCounts == [c \in Range(target_categories) |-> 0]

Init ==
    /\ target_categories \in TargetCategoryChoices
    /\ builder \in Builders
    /\ category_data \in (IF builder = "ItemSequenceGenerator"
                          THEN UniformPools(target_categories)
                          ELSE Pools(target_categories))
    /\ min_spacing \in 0..MaxSpacing
    /\ sequence_length \in 0..MaxLen
    /\ max_attempts \in (IF builder = "generate_spaced_sequence"
                         THEN {SpacedAttemptLimit} ELSE 1..MaxAttempts)
    /\ pc = "call"
    /\ feasibility = NoReport
    /\ target_length = sequence_length
    /\ attempt = 0
    /\ sequence = <<>>
    /\ remaining_items = {}
    /\ available_clips = <<>>
    /\ item_list = <<>>
    /\ category_counts = ZeroCounts
    /\ result = <<>>
    /\ error = ""
    /\ best_effort = FALSE
    /\ AnalyzerIdle
    /\ LoaderIdle
    /\ OtherModulesIdle

\* ------------------------------------------------------- leaving the call
locals == <<sequence, remaining_items, available_clips, item_list,
            category_counts>>

\* 'return res': the locals go out of scope.
Return(res, flagged) ==
    /\ pc' = "returned"
    /\ result' = res
    /\ best_effort' = flagged
    /\ sequence' = <<>>
    /\ remaining_items' = {}
    /\ available_clips' = <<>>
    /\ item_list' = <<>>
    /\ category_counts' = ZeroCounts
    /\ UNCHANGED error

\* 'raise exc'
Raise(exc) ==
    /\ pc' = "raised"
    /\ error' = exc
    /\ sequence' = <<>>
    /\ remaining_items' = {}
    /\ available_clips' = <<>>
    /\ item_list' = <<>>
    /\ category_counts' = ZeroCounts
    /\ UNCHANGED <<result, best_effort>>

\* ------------------------------------------- strict builders: shared shape
\* target_per_category = sequence_length // len(target_categories)
target_per_category(L, n) == L \div n

\* 'if category_counts[category] >= target_per_category + 2: continue'
over_represented(counts, category, tpc) == counts[category] >= tpc + 2

\* 'if len(sequence) == sequence_length: return sequence'
attempt_complete(seq, L) == Len(seq) = L

\* Variant of 'sequence = []' that keeps what the previous attempt placed.
fresh_sequence_carried(stale) == stale

\* 'sequence = []' at the top of each attempt
fresh_sequence(stale) == <<>>

\* Variant of the pop that leaves the placed item among the candidates.
remove_item_kept(rem, item) == rem

\* 'remaining_items.pop(i)'
remove_item(rem, item) == rem \ {item}

CanPlace(b, seq, item, ms) ==
    IF b = "generate_sequence" THEN can_place_item(seq, item, ms)
    ELSE can_place_item_flexible(seq, item, ms)

\* The items one iteration of the while loop may place.  remaining_items is
\* sorted by (category_counts[x[0]], random.random()) and walked in order;
\* the first item that is neither over-represented nor blocked by spacing is
\* placed.  The random secondary key orders each usage level arbitrarily, so
\* the placed item is any passing item of least usage among the passing ones.
Placeable(b, seq, rem, counts) ==
    LET tpc == target_per_category(sequence_length, Len(target_categories))
        passes(it) == /\ ~over_represented(counts, Primary(it), tpc)
                      /\ CanPlace(b, seq, it, min_spacing)
    IN  {it \in rem : /\ passes(it)
                      /\ \A o \in rem : passes(o) =>
                            counts[Primary(it)] <= counts[Primary(o)]}

\* Control after the loop body ran: the while condition, then the length test
\* after the loop, then the next iteration of the for loop.
AfterIteration(seq, rem, counts) ==
    IF Len(seq) < sequence_length /\ rem # {}
    THEN /\ pc' = "place"
         /\ sequence' = seq
         /\ remaining_items' = rem
         /\ category_counts' = counts
         /\ UNCHANGED <<available_clips, item_list, result, error,
                        best_effort>>
    ELSE IF attempt_complete(seq, sequence_length)
    THEN Return(seq, FALSE)
    ELSE /\ pc' = "attempt"
         /\ sequence' = seq
         /\ remaining_items' = rem
         /\ category_counts' = counts
         /\ UNCHANGED <<available_clips, item_list, result, error,
                        best_effort>>

\* Top of 'for attempt in range(max_attempts)': fresh sequence, fresh copy of
\* the candidates (shuffled), fresh counters.
begin_attempt(b, items) ==
    /\ pc = "attempt"
    /\ builder = b
    /\ attempt < max_attempts
    /\ attempt' = attempt + 1
    /\ AfterIteration(fresh_sequence(sequence), items, ZeroCounts)
    /\ UNCHANGED <<inputs, feasibility, target_length>>

\* One iteration of the while loop that places an item.
place_item(b) ==
    /\ pc = "place"
    /\ builder = b
    /\ \E item \in Placeable(b, sequence, remaining_items, category_counts) :
          AfterIteration(Append(sequence, item), remove_item(remaining_items, item),
                         [category_counts EXCEPT ![Primary(item)] = @ + 1])
    /\ UNCHANGED <<inputs, feasibility, target_length, attempt>>

\* 'if not placed: break', then the length test fails and the for loop
\* continues; the locals keep their values until they are reassigned.
abandon_attempt(b) ==
    /\ pc = "place"
    /\ builder = b
    /\ Placeable(b, sequence, remaining_items, category_counts) = {}
    /\ pc' = "attempt"
    /\ UNCHANGED <<inputs, feasibility, target_length, attempt, locals,
                   result, error, best_effort>>

\* 'raise RuntimeError(...)' after the for loop.
attempts_exhausted(b) ==
    /\ pc = "attempt"
    /\ builder = b
    /\ attempt = max_attempts
    /\ Raise("RuntimeError")
    /\ UNCHANGED <<inputs, feasibility, target_length, attempt>>

\* --------------------------- RealWorldItemGenerator.generate_sequence
GenerateSequenceCall ==
    /\ pc = "call"
    /\ builder = "generate_sequence"
    /\ LET f == analyze_feasibility(category_data, target_categories,
                                    AllowedVariations, sequence_length)
           available_items == generate_available_items(
                                  category_data, target_categories, AllowedVariations)
       IN  /\ feasibility' = f
           /\ IF ~f.all_categories_feasible
              THEN Raise("ValueError: Sequence not feasible")
              ELSE IF Cardinality(available_items) < sequence_length
              THEN Raise("ValueError: Not enough total items")
              ELSE /\ pc' = "attempt"
                   /\ UNCHANGED <<locals, result, error, best_effort>>
    /\ UNCHANGED <<inputs, target_length, attempt>>

GenerateSequenceAttempt ==
    begin_attempt("generate_sequence",
                  generate_available_items(category_data, target_categories,
                                           AllowedVariations))

GenerateSequencePlace == place_item("generate_sequence")

GenerateSequenceBreak == abandon_attempt("generate_sequence")

GenerateSequenceExhausted == attempts_exhausted("generate_sequence")

\* ------------------ RealWorldItemGenerator.generate_sequence_flexible
FlexibleCall ==
    /\ pc = "call"
    /\ builder = "generate_sequence_flexible"
    /\ LET available_items == generate_available_items_flexible(
                                  category_data, target_categories, AllowedVariations)
       IN  IF Cardinality(available_items) < sequence_length
           THEN Raise("ValueError: Not enough total items")
           ELSE /\ pc' = "attempt"
                /\ UNCHANGED <<locals, result, error, best_effort>>
    /\ UNCHANGED <<inputs, feasibility, target_length, attempt>>

FlexibleAttempt ==
    begin_attempt("generate_sequence_flexible",
                  generate_available_items_flexible(category_data, target_categories,
                                                    AllowedVariations))

FlexiblePlace == place_item("generate_sequence_flexible")

FlexibleBreak == abandon_attempt("generate_sequence_flexible")

FlexibleExhausted == attempts_exhausted("generate_sequence_flexible")

\* ------------------------- generate_my_sequence.generate_spaced_sequence
\* Variant of the clamp that always takes the pool size.
clamp_target_always(available, target) == available

\* Variant without the clamp.
clamp_target_never(available, target) == target

\* 'if len(all_clips) < target_length: target_length = len(all_clips)', and
\* the same clamp on sequence_length in generate_sequence_with_custom_mapping.
clamp_target(available, target) == IF available < target THEN available ELSE target

\* list.pop(i), 1-based
RemoveAt(s, i) == SubSeq(s, 1, i - 1) \o SubSeq(s, i + 1, Len(s))

\* 'for i, clip in enumerate(available_clips): if can_place_clip(...)': the
\* index of the first clip that passes, 0 if none does.
first_placeable(seq, clips, ms) ==
    IF \E i \in 1..Len(clips) : can_place_clip(seq, clips[i], ms)
    THEN CHOOSE i \in 1..Len(clips) :
            /\ can_place_clip(seq, clips[i], ms)
            /\ \A k \in 1..(i - 1) : ~can_place_clip(seq, clips[k], ms)
    ELSE 0

\* Variant of the best-effort return without the slice.
best_effort_slice_whole(shuffled, target) == shuffled

\* 'return all_clips[:target_length]' on the shuffled pool
best_effort_slice(shuffled, target) == SubSeq(shuffled, 1, Min(target, Len(shuffled)))

SpacedPool == clips_by_category(category_data, target_categories, AllowedVariations)

\* The wrapper clamps sequence_length to len(clips) and calls the builder,
\* which returns [] on an empty pool and clamps target_length itself.
SpacedCall ==
    /\ pc = "call"
    /\ builder = "generate_spaced_sequence"
    /\ LET requested == clamp_target(Cardinality(all_clips(SpacedPool)), sequence_length)
       IN  IF DOMAIN SpacedPool = {}
           THEN /\ Return(<<>>, FALSE)
                /\ target_length' = requested
           ELSE /\ target_length' = clamp_target(Cardinality(all_clips(SpacedPool)), requested)
                /\ pc' = "attempt"
                /\ UNCHANGED <<locals, result, error, best_effort>>
    /\ UNCHANGED <<inputs, feasibility, attempt>>

\* Top of 'for attempt in range(100)': empty sequence, shuffled copy of the
\* pool; a target of 0 runs no iteration of the inner loop and returns [].
SpacedAttempt ==
    /\ pc = "attempt"
    /\ builder = "generate_spaced_sequence"
    /\ attempt < SpacedAttemptLimit
    /\ attempt' = attempt + 1
    /\ \E shuffled \in Shuffles(all_clips(SpacedPool)) :
          IF attempt_complete(<<>>, target_length)
          THEN Return(<<>>, FALSE)
          ELSE /\ pc' = "place"
               /\ sequence' = <<>>
               /\ available_clips' = shuffled
               /\ UNCHANGED <<remaining_items, item_list, category_counts,
                              result, error, best_effort>>
    /\ UNCHANGED <<inputs, feasibility, target_length>>

\* One iteration of 'for _ in range(target_length)' that places a clip; the
\* loop ends after target_length placements and the sequence is returned.
SpacedPlace ==
    /\ pc = "place"
    /\ builder = "generate_spaced_sequence"
    /\ LET i == first_placeable(sequence, available_clips, min_spacing)
       IN  /\ i # 0
           /\ LET seq == Append(sequence, available_clips[i])
              IN  IF attempt_complete(seq, target_length)
                  THEN Return(seq, FALSE)
                  ELSE /\ sequence' = seq
                       /\ available_clips' = RemoveAt(available_clips, i)
                       /\ UNCHANGED <<pc, remaining_items, item_list,
                                      category_counts, result, error, best_effort>>
    /\ UNCHANGED <<inputs, feasibility, target_length, attempt>>

\* The for-else branch: no clip passes, 'break', the length test fails.
\* sequence and available_clips are dead from here on (both are reassigned at
\* the top of the for loop and neither is read by the best-effort branch), so
\* they are dropped.
SpacedBreak ==
    /\ pc = "place"
    /\ builder = "generate_spaced_sequence"
    /\ first_placeable(sequence, available_clips, min_spacing) = 0
    /\ pc' = "attempt"
    /\ sequence' = <<>>
    /\ available_clips' = <<>>
    /\ UNCHANGED <<inputs, feasibility, target_length, attempt,
                   remaining_items, item_list, category_counts, result,
                   error, best_effort>>

\* After the 100 attempts: print the warning, random.shuffle(all_clips),
\* return all_clips[:target_length].
SpacedBestEffort ==
    /\ pc = "attempt"
    /\ builder = "generate_spaced_sequence"
    /\ attempt = SpacedAttemptLimit
    /\ \E shuffled \in Shuffles(all_clips(SpacedPool)) :
          Return(best_effort_slice(shuffled, target_length), TRUE)
    /\ UNCHANGED <<inputs, feasibility, target_length, attempt>>

\* ----------------------- item_generator.ItemSequenceGenerator.generate_sequence
\* valid_items: the (category, item_id, variation) tuples of the target
\* categories and allowed variations, items_per_category of each.
valid_items(cd, categories, variations) ==
    UNION {{<<categories[i], item_id, variations[j]>> :
                item_id \in 1..cd[categories[i]][variations[j]]} :
           i \in 1..Len(categories), j \in 1..Len(variations)}

\* _get_category_counts(sequence)[category]
get_category_count(seq, category) ==
    Cardinality({i \in 1..Len(seq) : Primary(seq[i]) = category})

\* available_items.sort(key=lambda x: category_counts[x[0]]): a stable sort,
\* the items of each usage level keep their order.
RECURSIVE SortLevels(_, _, _)
SortLevels(items, seq, k) ==
    IF k > Len(seq) THEN <<>>
    ELSE SelectSeq(items, LAMBDA x : get_category_count(seq, Primary(x)) = k)
         \o SortLevels(items, seq, k + 1)

sort_by_usage(items, seq) == SortLevels(items, seq, 0)

\* Index of the first item of the sorted list that can be placed, 0 if none.
first_placeable_item(seq, items, ms) ==
    IF \E i \in 1..Len(items) : isg_can_place_item(seq, items[i], ms)
    THEN CHOOSE i \in 1..Len(items) :
            /\ isg_can_place_item(seq, items[i], ms)
            /\ \A k \in 1..(i - 1) : ~isg_can_place_item(seq, items[k], ms)
    ELSE 0

\* Control after the loop body: the while condition, the length test after
\* the loop, the next attempt (which assigns sequence and list anew).
ItemAfterIteration(seq, avail) ==
    IF Len(seq) < sequence_length /\ avail # <<>>
    THEN /\ pc' = "place"
         /\ sequence' = seq
         /\ item_list' = avail
         /\ UNCHANGED <<remaining_items, available_clips, category_counts,
                        result, error, best_effort>>
    ELSE IF attempt_complete(seq, sequence_length)
    THEN Return(seq, FALSE)
    ELSE /\ pc' = "attempt"
         /\ sequence' = <<>>
         /\ item_list' = <<>>
         /\ UNCHANGED <<remaining_items, available_clips, category_counts,
                        result, error, best_effort>>

\* 'if not valid_items: raise ValueError'
ItemCall ==
    /\ pc = "call"
    /\ builder = "ItemSequenceGenerator"
    /\ IF valid_items(category_data, target_categories, AllowedVariations) = {}
       THEN Raise("ValueError: No valid items")
       ELSE /\ pc' = "attempt"
            /\ UNCHANGED <<locals, result, error, best_effort>>
    /\ UNCHANGED <<inputs, feasibility, target_length, attempt>>

\* Top of the attempt loop: empty sequence, shuffled copy of valid_items.
ItemAttempt ==
    /\ pc = "attempt"
    /\ builder = "ItemSequenceGenerator"
    /\ attempt < max_attempts
    /\ attempt' = attempt + 1
    /\ \E shuffled \in Shuffles(valid_items(category_data, target_categories,
                                            AllowedVariations)) :
          ItemAfterIteration(<<>>, shuffled)
    /\ UNCHANGED <<inputs, feasibility, target_length>>

\* One iteration of the while loop that places the first placeable item of
\* the list sorted by usage.
ItemPlace ==
    /\ pc = "place"
    /\ builder = "ItemSequenceGenerator"
    /\ LET sorted == sort_by_usage(item_list, sequence)
           i == first_placeable_item(sequence, sorted, min_spacing)
       IN  /\ i # 0
           /\ ItemAfterIteration(Append(sequence, sorted[i]), RemoveAt(sorted, i))
    /\ UNCHANGED <<inputs, feasibility, target_length, attempt>>

\* 'if not placed: break': the length test fails; the attempt's sequence
\* and list are dead, the next attempt assigns both anew.
ItemBreak ==
    /\ pc = "place"
    /\ builder = "ItemSequenceGenerator"
    /\ first_placeable_item(sequence, sort_by_usage(item_list, sequence),
                            min_spacing) = 0
    /\ pc' = "attempt"
    /\ sequence' = <<>>
    /\ item_list' = <<>>
    /\ UNCHANGED <<inputs, feasibility, target_length, attempt,
                   remaining_items, available_clips, category_counts, result,
                   error, best_effort>>

\* 'raise RuntimeError(...)' after the attempt loop.
ItemExhausted ==
    /\ pc = "attempt"
    /\ builder = "ItemSequenceGenerator"
    /\ attempt = max_attempts
    /\ Raise("RuntimeError")
    /\ UNCHANGED <<inputs, feasibility, target_length, attempt>>

\* generate_sequence_with_custom_mapping: 'if not sequence: return False',
\* otherwise the rows are written and True is returned.
custom_mapping_returns(res) == res # <<>>

\* ------------------------------------------------------------ specification
Next ==
    \/ GenerateSequenceCall
    \/ GenerateSequenceAttempt
    \/ GenerateSequencePlace
    \/ GenerateSequenceBreak
    \/ GenerateSequenceExhausted
    \/ FlexibleCall
    \/ FlexibleAttempt
    \/ FlexiblePlace
    \/ FlexibleBreak
    \/ FlexibleExhausted
    \/ SpacedCall
    \/ SpacedAttempt
    \/ SpacedPlace
    \/ SpacedBreak
    \/ SpacedBestEffort
    \/ ItemCall
    \/ ItemAttempt
    \/ ItemPlace
    \/ ItemBreak
    \/ ItemExhausted

Spec == Init /\ [][Next]_vars

TypeOK ==
    /\ pc \in {"call", "attempt", "place", "returned", "raised"}
    /\ attempt \in 0..Max(MaxAttempts, SpacedAttemptLimit)
    /\ Len(sequence) <= MaxItems
    /\ best_effort \in BOOLEAN

\* =================================================================== claims
IsStrict == builder \in {"generate_sequence", "generate_sequence_flexible"}

\* For all positions i < j holding the same primary value, j - i > ms.
SpacingHolds(seq, ms) ==
    \A i, j \in 1..Len(seq) :
        (i < j /\ Primary(seq[i]) = Primary(seq[j])) => j - i > ms

HasRepeatedPrimary(seq) ==
    \E i, j \in 1..Len(seq) : i < j /\ Primary(seq[i]) = Primary(seq[j])

\* C1: every sequence a strict builder returns keeps same-primary items more
\* than min_spacing positions apart, for every pool, length and
\* min_spacing >= 0, and _check_spacing_violations finds nothing in it.
C1_SpacingInvariant ==
    (pc = "returned" /\ IsStrict) =>
        /\ SpacingHolds(result, min_spacing)
        /\ check_spacing_violations(result, min_spacing) = {}

\* A gated strict call returned a sequence that repeats a category under a
\* positive spacing.
C1_Witness ==
    /\ pc = "returned"
    /\ builder = "generate_sequence"
    /\ min_spacing >= 1
    /\ HasRepeatedPrimary(result)

\* ---------------------------------------------------------------------- C2
Done == pc \in {"returned", "raised"}

\* What the analyzer reports for the request of this call; 'feasibility' is
\* the report generate_sequence itself obtained.
Report ==
    analyze_feasibility(category_data, target_categories, AllowedVariations,
                        sequence_length)

Total == TotalAvailable(category_data, target_categories, AllowedVariations)

CountOf(seq, category) == Cardinality({i \in 1..Len(seq) : Primary(seq[i]) = category})

\* count <= sequence_length / num_groups + 2, in integers
WithinBalanceBound(count) ==
    count * Len(target_categories) <= sequence_length + 2 * Len(target_categories)

\* C2 as stated: whenever the analyzer's verdict is not IMPOSSIBLE, the strict
\* builder run on the same pool ends by returning a sequence.
C2_NotImpossibleSucceeds ==
    (Done /\ builder = "generate_sequence" /\ feasibility.recommendation # "IMPOSSIBLE")
        => pc = "returned"

\* The request can be spaced at all: more categories than min_spacing, or a
\* target of at most one item per category.
Spaceable ==
    \/ Len(target_categories) > min_spacing
    \/ sequence_length <= Len(target_categories)

\* C2 amended: with a verdict other than IMPOSSIBLE, generate_sequence
\* returns a complete sequence (spaced, within the balance bound) in its first
\* attempt when the request is spaceable, and otherwise fails every attempt
\* and raises RuntimeError after max_attempts attempts.
C2_SucceedsIffSpaceable ==
    (Done /\ builder = "generate_sequence" /\ feasibility.recommendation # "IMPOSSIBLE")
        => IF Spaceable
           THEN /\ pc = "returned"
                /\ attempt = 1
                /\ Len(result) = sequence_length
                /\ SpacingHolds(result, min_spacing)
                /\ \A c \in Range(target_categories) :
                      WithinBalanceBound(CountOf(result, c))
           ELSE /\ pc = "raised"
                /\ error = "RuntimeError"
                /\ attempt = max_attempts

\* A verdict other than IMPOSSIBLE, a positive spacing, and a returned
\* sequence that uses some category more than once.
C2_Witness ==
    /\ pc = "returned"
    /\ builder = "generate_sequence"
    /\ feasibility.recommendation \in {"RISKY", "MARGINAL"}
    /\ min_spacing >= 1
    /\ \E c \in Range(target_categories) : CountOf(result, c) >= 2

\* ---------------------------------------------------------------------- C3
\* C3: on both strict entry points no attempt (shuffle, placement) starts on
\* a request the analyzer calls IMPOSSIBLE, and such a request ends in an
\* error.
C3_FeasibilityGate ==
    (IsStrict /\ Report.recommendation = "IMPOSSIBLE")
        => /\ attempt = 0
           /\ Done => pc = "raised"

\* ---------------------------------------------------------------------- C4
\* C4: a returned sequence has exactly min(requested length, total available)
\* items, whichever builder returned it.
C4_LengthCorrect ==
    pc = "returned" => Len(result) = Min(sequence_length, Total)

\* The relaxed builder returned fewer items than the pool holds.
C4_Witness ==
    /\ pc = "returned"
    /\ builder = "generate_spaced_sequence"
    /\ 0 < Len(result)
    /\ sequence_length < Total

\* ---------------------------------------------------------------------- C5
\* C5 as stated: when the requested length exceeds the pool, the builder
\* returns (does not raise) a sequence of the pool's size that satisfies the
\* spacing invariant.
C5_ClampedAndSpaced ==
    (Done /\ sequence_length > Total)
        => /\ pc = "returned"
           /\ Len(result) = Total
           /\ SpacingHolds(result, min_spacing)

\* C5 amended: when the requested length exceeds the pool, the relaxed
\* builder clamps the target to the pool's size and returns that many items,
\* spaced unless the result is the best-effort one; the builders of
\* RealWorldItemGenerator raise ValueError before any attempt, and
\* ItemSequenceGenerator raises too, ValueError for an empty pool and
\* RuntimeError after max_attempts attempts otherwise.
C5_ClampRelaxedRaiseStrict ==
    (Done /\ sequence_length > Total)
        => IF builder = "generate_spaced_sequence"
           THEN /\ pc = "returned"
                /\ target_length = Total
                /\ Len(result) = Total
                /\ (~best_effort => SpacingHolds(result, min_spacing))
           ELSE IF IsStrict
           THEN /\ pc = "raised"
                /\ error \in {"ValueError: Sequence not feasible",
                              "ValueError: Not enough total items"}
                /\ attempt = 0
           ELSE /\ pc = "raised"
                /\ IF Total = 0
                   THEN error = "ValueError: No valid items" /\ attempt = 0
                   ELSE error = "RuntimeError" /\ attempt = max_attempts

\* A clamped request that an attempt completed with a repeated category.
C5_Witness ==
    /\ pc = "returned"
    /\ builder = "generate_spaced_sequence"
    /\ sequence_length > Total
    /\ ~best_effort
    /\ min_spacing >= 1
    /\ HasRepeatedPrimary(result)

\* ---------------------------------------------------------------------- C6
Distinct(seq) == \A i, j \in 1..Len(seq) : seq[i] = seq[j] => i = j

CandidateItems ==
    IF builder = "generate_sequence"
    THEN generate_available_items(category_data, target_categories, AllowedVariations)
    ELSE IF builder = "generate_sequence_flexible"
    THEN generate_available_items_flexible(category_data, target_categories,
                                           AllowedVariations)
    ELSE IF builder = "ItemSequenceGenerator"
    THEN valid_items(category_data, target_categories, AllowedVariations)
    ELSE all_clips(SpacedPool)

\* C6: the items of a returned sequence are pairwise distinct inventory items
\* of the pool.
C6_NoDuplicatePlacement ==
    pc = "returned" => (Distinct(result) /\ Range(result) \subseteq CandidateItems)

\* The flexible builder returned two different items of one leaf group.
C6_Witness ==
    /\ pc = "returned"
    /\ builder = "generate_sequence_flexible"
    /\ \E i, j \in 1..Len(result) :
          /\ i < j
          /\ result[i][1] = result[j][1]
          /\ result[i][2] = result[j][2]
          /\ result[i][3] # result[j][3]

\* ---------------------------------------------------------------------- C7
\* C7: the usage counter of every primary value stays within
\* sequence_length / num_groups + 2 in every state of an attempt and in every
\* returned sequence: in the builders of RealWorldItemGenerator, whose
\* counter counts the items placed, and in ItemSequenceGenerator, whose
\* counter is recomputed from the sequence.
C7_BalanceBound ==
    /\ IsStrict =>
        /\ \A c \in Range(target_categories) :
              /\ WithinBalanceBound(category_counts[c])
              /\ pc = "place" => category_counts[c] = CountOf(sequence, c)
        /\ pc = "returned" =>
              \A c \in Range(target_categories) : WithinBalanceBound(CountOf(result, c))
    /\ builder = "ItemSequenceGenerator" =>
        \A c \in Range(target_categories) :
            /\ WithinBalanceBound(get_category_count(sequence, c))
            /\ pc = "returned" => WithinBalanceBound(get_category_count(result, c))

\* ---------------------------------------------------------------------- C8
\* C8: a strict builder returns only a sequence of the full requested length,
\* never a best-effort one; it raises RuntimeError only once max_attempts
\* attempts were made; and every attempt works on its own sequence: what it
\* placed and what remains partition the candidates.
C8_NoPartialSequence ==
    IsStrict =>
        /\ pc = "returned" =>
              (Len(result) = sequence_length /\ ~best_effort /\ attempt >= 1)
        /\ pc = "raised" =>
              (result = <<>> /\ (error = "RuntimeError" => attempt = max_attempts))
        /\ pc = "place" =>
              /\ Len(sequence) < sequence_length
              /\ Range(sequence) \cap remaining_items = {}
              /\ Range(sequence) \cup remaining_items = CandidateItems

\* A later attempt is under way after an earlier one was abandoned.
C8_Witness ==
    /\ pc = "place"
    /\ IsStrict
    /\ attempt >= 2
    /\ Len(sequence) >= 1

\* ---------------------------------------------------------------------- C9
\* What a caller holds after the call: the returned list and, through
\* generate_sequence_with_custom_mapping, True or False.  A best-effort list
\* can be told from a spaced one only if it is not itself spaced or the
\* wrapper answers differently.
CallerCanTell ==
    \/ ~SpacingHolds(result, min_spacing)
    \/ ~custom_mapping_returns(result)

\* C9 as stated: the best-effort result is a truncated shuffle of the pool
\* and the caller can distinguish it from a sequence that satisfies spacing.
C9_BestEffortFlagged ==
    (pc = "returned" /\ best_effort)
        => /\ Len(result) = target_length
           /\ Range(result) \subseteq CandidateItems
           /\ CallerCanTell

\* C9 amended: only the relaxed builder, after all its attempts, returns a
\* best-effort result; it is target_length distinct items of the pool, and
\* the wrapper reports success for it as for a spaced sequence.
C9_BestEffortShuffle ==
    (pc = "returned" /\ best_effort)
        => /\ builder = "generate_spaced_sequence"
           /\ attempt = SpacedAttemptLimit
           /\ Len(result) = target_length
           /\ Distinct(result)
           /\ Range(result) \subseteq CandidateItems
           /\ custom_mapping_returns(result)

\* A truncated best-effort result that breaks the spacing.
C9_Witness ==
    /\ pc = "returned"
    /\ best_effort
    /\ Len(result) < Total
    /\ ~SpacingHolds(result, min_spacing)

\* --------------------------------------------------------------------- C10
\* C10: with min_spacing = 0 every placement check accepts every candidate
\* of the pool against every partial sequence an attempt builds.
C10_ZeroSpacingAcceptsAll ==
    min_spacing = 0 =>
        \A c \in CandidateItems :
            /\ can_place_item(sequence, c, min_spacing)
            /\ can_place_item_flexible(sequence, c, min_spacing)
            /\ can_place_clip(sequence, c, min_spacing)

\* With min_spacing = 0 an attempt placed a candidate right after an item of
\* the same primary value.
C10_Witness ==
    /\ min_spacing = 0
    /\ pc = "place"
    /\ builder = "generate_sequence_flexible"
    /\ Len(sequence) >= 2
    /\ Primary(sequence[Len(sequence)]) = Primary(sequence[Len(sequence) - 1])

\* ================================================= feasibility analyzer calls
\* analyze_feasibility called on its own: the method of RealWorldItemGenerator
\* on a generator holding category_data, and the module function of
\* item_generator.py on the figures of a uniform pool.
MaxAnalyzedItems == 3   \* items of one category in an analyzed pool
MaxAnalyzedLen == 5     \* sequence_length of an analyzer call
MaxCalls == 2           \* analyze_feasibility calls in one behaviour

\* Variant of the analyzer that remembers its calls: each call asks for one
\* item more than the call before.
feasibility_report_stateful(cd, categories, variations, L) ==
    IF DOMAIN cd = {}
    THEN [called |-> TRUE, error |-> "No category data loaded"]
    ELSE IF \E c \in Range(categories) : c \notin DOMAIN cd
    THEN [called |-> TRUE, error |-> "Category not found"]
    ELSE analyze_feasibility(cd, categories, variations, L + Len(reports))

\* analyze_feasibility with its two early returns: 'if not
\* self.category_data' and 'if category not in self.category_data', the
\* first missing category in the order of target_categories.

feasibility_report(cd, categories, variations, L) ==
    IF DOMAIN cd = {}
    THEN [called |-> TRUE, error |-> "No category data loaded"]
    ELSE IF \E c \in Range(categories) : c \notin DOMAIN cd
    THEN LET i == CHOOSE k \in 1..Len(categories) :
                     /\ categories[k] \notin DOMAIN cd
                     /\ \A j \in 1..(k - 1) : categories[j] \in DOMAIN cd
         IN  [called |-> TRUE, error |-> "Category not found", category |-> categories[i]]
    ELSE analyze_feasibility(cd, categories, variations, L)

\* Variant of item_generator.analyze_feasibility that looks at the supply
\* only: feasible when the pool holds sequence_length items.
module_analyze_feasibility_supply_only(num_categories, L, ms, items_per_category, num_variations) ==
    LET available_per_category == items_per_category * num_variations
        total_available == num_categories * available_per_category
    IN  [called |-> TRUE,
         feasible |-> total_available >= L,
         num_categories |-> num_categories,
         sequence_length |-> L,
         min_spacing |-> ms,
         available_per_category |-> available_per_category,
         total_available |-> total_available,
         max_per_category_theoretical |-> (L \div (ms + 1)) + 1,
         max_achievable_length |-> total_available]

\* item_generator.analyze_feasibility(num_categories, sequence_length,
\* min_spacing, items_per_category, num_variations); the report keeps the
\* arguments it echoes and the figures 'feasible' is computed from.
module_analyze_feasibility(num_categories, L, ms, items_per_category, num_variations) ==
    LET available_per_category == items_per_category * num_variations
        total_available == num_categories * available_per_category
        effective_spacing == ms + 1
        max_per_category_theoretical == (L \div effective_spacing) + 1
        max_achievable == Min(total_available,
                              num_categories * max_per_category_theoretical)
    IN  [called |-> TRUE,
         feasible |-> max_achievable >= L,
         num_categories |-> num_categories,
         sequence_length |-> L,
         min_spacing |-> ms,
         available_per_category |-> available_per_category,
         total_available |-> total_available,
         max_per_category_theoretical |-> max_per_category_theoretical,
         max_achievable_length |-> max_achievable]

\* The pools an analyzer call can meet: a count for each category that has
\* data, no entry for a category that has none, possibly no data at all.
AnalyzedPools(categories) ==
    UNION {[D -> [Range(AllowedVariations) -> 0..MaxAnalyzedItems]] :
           D \in SUBSET Range(categories)}

\* The item lookup an analyzer call meets: the empty one of __init__ with an
\* empty pool, one filled by the load with a pool that has data.
AnalyzedLookup(cd) ==
    IF DOMAIN cd = {} THEN <<>>
    ELSE (<<"a", "red", 1>> :> [name |-> "clip1", link |-> "link1",
                                vals |-> [category |-> "a", color |-> "red"]])

\* Every component but the generator's fields and the analyzer is at rest.
BuilderAtRest ==
    /\ builder = "none"
    /\ max_attempts = 1
    /\ pc = "idle"
    /\ feasibility = NoReport
    /\ target_length = 0
    /\ attempt = 0
    /\ sequence = <<>>
    /\ remaining_items = {}
    /\ available_clips = <<>>
    /\ item_list = <<>>
    /\ category_counts = <<>>
    /\ result = <<>>
    /\ error = ""
    /\ best_effort = FALSE

builder_locals == <<builder, max_attempts, pc, feasibility, target_length,
                    attempt, sequence, remaining_items, available_clips,
                    item_list, category_counts, result, error, best_effort>>

AnalyzerInit ==
    /\ target_categories \in TargetCategoryChoices
    /\ category_data \in AnalyzedPools(target_categories)
    /\ min_spacing \in 0..MaxSpacing
    /\ sequence_length \in 0..MaxAnalyzedLen
    /\ clip_inventory = AnalyzedLookup(category_data)
    /\ BuilderAtRest
    /\ AnalyzerIdle
    /\ LoaderNotCalled
    /\ OtherModulesIdle

\* generator.analyze_feasibility(target_categories, allowed_variations,
\* sequence_length): the method assigns no field of the generator.
AnalyzeFeasibility ==
    /\ Len(reports) < MaxCalls
    /\ reports' = Append(reports,
                         feasibility_report(category_data, target_categories,
                                            AllowedVariations, sequence_length))
    /\ UNCHANGED <<target_categories, category_data, min_spacing,
                   sequence_length, builder_locals, analysis, loader_vars, other_modules>>

\* item_generator.analyze_feasibility for a uniform pool shaped after the
\* generator's: as many categories, the item count of one of its categories,
\* its variations, the same length and spacing.
ModuleAnalyzeFeasibility ==
    /\ analysis = NoAnalysis
    /\ \E c \in DOMAIN category_data :
          analysis' = module_analyze_feasibility(
                          Len(target_categories), sequence_length, min_spacing,
                          category_data[c][AllowedVariations[1]],
                          Len(AllowedVariations))
    /\ UNCHANGED <<target_categories, category_data, min_spacing,
                   sequence_length, builder_locals, reports, loader_vars,
                   other_modules>>

AnalyzerNext ==
    \/ AnalyzeFeasibility
    \/ ModuleAnalyzeFeasibility

AnalyzerSpec == AnalyzerInit /\ [][AnalyzerNext]_vars

\* ------------------------------------------------- claims on the analyzer
\* The reports of the method that are reports, not error returns.
IsReport(r) == "error" \notin DOMAIN r

AnalyzedAvailable(c) == Available(category_data, c, AllowedVariations)

AnalyzedTotal == TotalAvailable(category_data, target_categories, AllowedVariations)

\* available < needed, needed = sequence_length / number of primary values
BelowNeed(available) == available * Len(target_categories) < sequence_length

\* What the method's report says of primary values and of the request.
MethodFeasibilityDefinition(r) ==
    /\ r.bottleneck_categories =
          {c \in Range(target_categories) : BelowNeed(AnalyzedAvailable(c))}
    /\ (r.basic_feasible /\ r.all_categories_feasible)
          <=> (AnalyzedTotal >= sequence_length /\ r.bottleneck_categories = {})
    /\ (r.recommendation # "IMPOSSIBLE")
          <=> (AnalyzedTotal >= sequence_length /\ r.bottleneck_categories = {})

\* ---------------------------------------------------------------------- C11
\* C11 as stated: the analyzer marks a primary value as a bottleneck exactly
\* when its available count is below sequence_length / number of primary
\* values, and reports the request feasible exactly when the total supply
\* reaches sequence_length and no primary value is a bottleneck; so for the
\* method of RealWorldItemGenerator and for the function of item_generator.
C11_FeasibleIffSupply ==
    /\ \A i \in 1..Len(reports) :
          IsReport(reports[i]) => MethodFeasibilityDefinition(reports[i])
    /\ analysis.called =>
          (analysis.feasible <=>
              /\ analysis.total_available >= analysis.sequence_length
              /\ ~BelowNeed(analysis.available_per_category))

\* C11 amended: the method's report is as stated; the function of
\* item_generator.py has no bottleneck list and reports feasible exactly when
\* the total supply reaches sequence_length and num_categories *
\* (sequence_length // (min_spacing + 1) + 1) reaches it too.
C11_FeasibleIffSupplyAndSpacing ==
    /\ \A i \in 1..Len(reports) :
          IsReport(reports[i]) => MethodFeasibilityDefinition(reports[i])
    /\ analysis.called =>
          (analysis.feasible <=>
              /\ analysis.total_available >= analysis.sequence_length
              /\ analysis.num_categories
                   * ((analysis.sequence_length \div (analysis.min_spacing + 1)) + 1)
                 >= analysis.sequence_length)

\* The method reported a bottleneck in a pool of sufficient total supply, and
\* the function refused a request the supply alone would allow.
C11_Witness ==
    /\ Len(reports) >= 1
    /\ IsReport(reports[1])
    /\ reports[1].basic_feasible
    /\ reports[1].bottleneck_categories # {}
    /\ analysis.called
    /\ analysis.total_available >= analysis.sequence_length
    /\ ~analysis.feasible

\* ---------------------------------------------------------------------- C12
\* The least available count over the primary values of the request.
MinAvailable ==
    CHOOSE m \in {AnalyzedAvailable(c) : c \in Range(target_categories)} :
        \A c \in Range(target_categories) : m <= AnalyzedAvailable(c)

\* r compared with p / q, r = MinAvailable / (sequence_length / n).
RatioAbove(p, q) == q * MinAvailable * Len(target_categories) > p * sequence_length

RatioIs(p, q) == q * MinAvailable * Len(target_categories) = p * sequence_length

RatioBelow(p, q) == q * MinAvailable * Len(target_categories) < p * sequence_length

\* The label of a report with bottlenecks names them, in request order.
ImpossibleNamesBottlenecks(r) ==
    r.bottleneck_categories # {} =>
        /\ r.recommendation = "IMPOSSIBLE"
        /\ Range(r.recommendation_names) = r.bottleneck_categories
        /\ r.recommendation_names =
              SelectSeq(target_categories,
                        LAMBDA c : BelowNeed(AnalyzedAvailable(c)))

\* 40 available against 30 needed: ratio 4/3.
RatioFourThirdsIsMarginal(r) == RatioIs(4, 3) => r.recommendation = "MARGINAL"

\* C12 as stated: EXCELLENT above 2.0, GOOD in 1.5-2.0, MARGINAL in 1.2-1.5,
\* RISKY for 1.0 <= r < 1.2 (so 1.2 itself is MARGINAL), IMPOSSIBLE with the
\* bottlenecks named; ratio 1.33 is MARGINAL.
C12_ThresholdsAsStated ==
    \A i \in 1..Len(reports) :
        LET r == reports[i]
        IN  (IsReport(r) /\ sequence_length > 0) =>
               /\ ImpossibleNamesBottlenecks(r)
               /\ RatioFourThirdsIsMarginal(r)
               /\ r.bottleneck_categories = {} =>
                     /\ RatioAbove(2, 1) => r.recommendation = "EXCELLENT"
                     /\ (RatioAbove(3, 2) /\ ~RatioAbove(2, 1)) => r.recommendation = "GOOD"
                     /\ RatioIs(3, 2) => r.recommendation \in {"GOOD", "MARGINAL"}
                     /\ (~RatioBelow(6, 5) /\ RatioBelow(3, 2)) => r.recommendation = "MARGINAL"
                     /\ RatioBelow(6, 5) => r.recommendation = "RISKY"

\* C12 amended: every threshold is strict.  EXCELLENT for r > 2.0, GOOD for
\* 1.5 < r <= 2.0, MARGINAL for 1.2 < r <= 1.5, RISKY for 1.0 <= r <= 1.2,
\* IMPOSSIBLE with the bottlenecks named; ratio 1.33 is MARGINAL; a request
\* for no item (needed = 0) is EXCELLENT.
C12_ThresholdsStrict ==
    \A i \in 1..Len(reports) :
        LET r == reports[i]
        IN  IsReport(r) =>
               /\ ImpossibleNamesBottlenecks(r)
               /\ sequence_length > 0 => RatioFourThirdsIsMarginal(r)
               /\ r.bottleneck_categories = {} =>
                     r.recommendation =
                        IF sequence_length = 0 \/ RatioAbove(2, 1) THEN "EXCELLENT"
                        ELSE IF RatioAbove(3, 2) THEN "GOOD"
                        ELSE IF RatioAbove(6, 5) THEN "MARGINAL"
                        ELSE "RISKY"
               /\ r.recommendation = "RISKY" => ~RatioBelow(1, 1)

\* A report on a request whose least ratio is exactly 1.2.
C12_Witness ==
    /\ Len(reports) >= 1
    /\ IsReport(reports[1])
    /\ sequence_length > 0
    /\ RatioIs(6, 5)
    /\ reports[1].recommendation = "RISKY"

\* ======================================================= loader and exporter
\* load_clips_from_csv_flexible read line by line, _build_nested_structure,
\* the conversion of load_clips_from_csv, and the two exporters.
MaxRows == 2        \* data lines of the CSV file
MaxExported == 2    \* items of an exported sequence

\* The clip name and video link of the i-th data line.
ClipNames == <<"clip1", "clip2", "clip3", "clip4">>

LinkNames == <<"link1", "link2", "link3", "link4">>

\* The header lines tried: with and without 'video link', without the
\* schema column 'color', without 'clip name'.
Headers ==
    {<<"clip name", "category", "color">>,
     <<"clip name", "video link", "category", "color">>,
     <<"clip name", "category">>,
     <<"category", "color">>}

CategoryCells == {"a", " a ", "b"}

ColorCells == {"red", "blue"}

\* str.strip() on the cell texts of the file.
strip(text) == IF text = " a " THEN "a" ELSE text

\* A data line: its category and colour cells and the number of cells it
\* holds; csv.DictReader gives None for a column the line has no cell for.
Lines(header) ==
    [category : CategoryCells, color : ColorCells,
     cells : {Len(header) - 1, Len(header)}]

RECURSIVE SeqsUpTo(_, _)
SeqsUpTo(S, n) ==
    IF n = 0 THEN {<<>>}
    ELSE SeqsUpTo(S, n - 1)
         \cup {Append(q, x) : q \in {r \in SeqsUpTo(S, n - 1) : Len(r) = n - 1}, x \in S}

\* The variable_filters tried, as (name, allowed values) in key order.
CategoryFilters == {<<"a">>, <<"a", "b">>}

ColorFilters == {<<"red">>, <<"red", "blue">>}

SingleLevelFilters ==
    {<<[name |-> "category", values |-> c]>> : c \in CategoryFilters}

TwoLevelFilters ==
    {<<[name |-> "category", values |-> c], [name |-> "color", values |-> k]>> :
        c \in CategoryFilters, k \in ColorFilters}

\* variable_names = list(variable_filters.keys())
variable_names(filters) == [l \in 1..Len(filters) |-> filters[l].name]

column_position(header, column) ==
    CHOOSE k \in 1..Len(header) : header[k] = column

\* row[column] is None: the line is shorter than the column's position.
is_none(header, line, column) == column_position(header, column) > line.cells

cell_text(line, i, column) ==
    CASE column = "clip name" -> ClipNames[i]
      [] column = "video link" -> LinkNames[i]
      [] column = "category" -> line.category
      [] column = "color" -> line.color

\* 'for var_name, allowed_values in variable_filters.items()': "match" when
\* every level passes, "drop" at the first column that is missing or value
\* that is excluded, "raise" when .strip() meets None.
RECURSIVE match_filters(_, _, _, _, _)
match_filters(header, line, i, filters, level) ==
    IF level > Len(filters) THEN "match"
    ELSE LET var_name == filters[level].name
         IN  IF var_name \notin Range(header) THEN "drop"
             ELSE IF is_none(header, line, var_name) THEN "raise"
             ELSE IF strip(cell_text(line, i, var_name)) \in Range(filters[level].values)
             THEN match_filters(header, line, i, filters, level + 1)
             ELSE "drop"

\* The body of 'for row in reader': row['clip name'] raises KeyError without
\* the column, .strip() raises on None; both leave as 'Error reading CSV file'.
read_row(header, line, i, filters) ==
    IF "clip name" \notin Range(header) THEN "raise"
    ELSE IF is_none(header, line, "clip name") THEN "raise"
    ELSE IF "video link" \in Range(header) /\ is_none(header, line, "video link")
    THEN "raise"
    ELSE match_filters(header, line, i, filters, 1)

\* clip_data of a matching line.
clip_data_of(header, line, i, filters) ==
    [name |-> strip(ClipNames[i]),
     link |-> IF "video link" \in Range(header) THEN strip(LinkNames[i]) ELSE "",
     vals |-> [v \in Range(variable_names(filters)) |-> strip(cell_text(line, i, v))]]

\* create_nested_dict: every combination of allowed values, count 0.
RECURSIVE create_nested_dict(_, _)
create_nested_dict(filters, level) ==
    IF level > Len(filters) THEN 0
    ELSE [v \in Range(filters[level].values) |-> create_nested_dict(filters, level + 1)]

\* The count stored under a path of values.
RECURSIVE count_at(_, _)
count_at(data, path) ==
    IF path = <<>> THEN data ELSE count_at(data[Head(path)], Tail(path))

\* 'current_level[last_value] += 1'
RECURSIVE increment_at(_, _)
increment_at(data, path) ==
    IF path = <<>> THEN data + 1
    ELSE [data EXCEPT ![Head(path)] = increment_at(@, Tail(path))]

\* Variant of the ordinal that is read before the increment.
item_id_before_increment(new_count) == new_count - 1

\* 'item_id = current_level[last_value]', read after the increment.
item_id_of(new_count) == new_count

\* The counting loop of _build_nested_structure from the k-th clip on.
RECURSIVE build_nested_structure(_, _, _, _, _)
build_nested_structure(clips, k, names, data, inventory) ==
    IF k > Len(clips)
    THEN [nested_data |-> data, clip_inventory |-> inventory]
    ELSE LET clip == clips[k]
             variable_path == [l \in 1..Len(names) |-> clip.vals[names[l]]]
             counted == increment_at(data, variable_path)
             item_id == item_id_of(count_at(counted, variable_path))
             key == Append(variable_path, item_id)
         IN  build_nested_structure(
                 clips, k + 1, names, counted,
                 (key :> [name |-> clip.name, link |-> clip.link, vals |-> clip.vals])
                     @@ inventory)

\* traverse_nested of _generate_available_items_flexible: the item tuples in
\* the order of the filter's values, item_id 1..count at each leaf.
RECURSIVE traverse_nested(_, _, _, _, _)
traverse_nested(data, current_path, level, filters, j) ==
    IF level > Len(filters)
    THEN [item_id \in 1..data |-> Append(current_path, item_id)]
    ELSE IF j > Len(filters[level].values) THEN <<>>
    ELSE LET value == filters[level].values[j]
         IN  (IF value \in DOMAIN data
              THEN traverse_nested(data[value], Append(current_path, value),
                                   level + 1, filters, 1)
              ELSE <<>>)
             \o traverse_nested(data, current_path, level, filters, j + 1)

flattened_items(data, filters) == traverse_nested(data, <<>>, 1, filters, 1)

\* load_clips_from_csv: color_to_index and the old-format category_data.
index_color_map(filters) == filters[2].values

convert_to_category_data(data, filters) ==
    [category \in Range(filters[1].values) |->
        [color_index \in 1..Len(filters[2].values) |->
            data[category][filters[2].values[color_index]]]]

LoaderInit ==
    /\ csv_header \in Headers
    /\ csv_rows \in SeqsUpTo(Lines(csv_header), MaxRows)
    /\ load_entry \in {"load_clips_from_csv_flexible", "load_clips_from_csv"}
    /\ variable_filters \in (IF load_entry = "load_clips_from_csv"
                             THEN TwoLevelFilters
                             ELSE SingleLevelFilters \cup TwoLevelFilters)
    /\ load_pc = "read"
    /\ row_no = 0
    /\ filtered_clips = <<>>
    /\ clip_inventory = <<>>
    /\ nested_data = <<>>
    /\ loaded_category_data = <<>>
    /\ export_sequence = <<>>
    /\ exported_rows = <<>>
    /\ target_categories = <<>>
    /\ category_data = <<>>
    /\ min_spacing = 0
    /\ sequence_length = 0
    /\ BuilderAtRest
    /\ AnalyzerIdle
    /\ OtherModulesIdle

generator_call == <<target_categories, category_data, min_spacing,
                    sequence_length, builder_locals>>

\* One turn of 'for row in reader'.
LoaderReadRow ==
    /\ load_pc = "read"
    /\ row_no < Len(csv_rows)
    /\ row_no' = row_no + 1
    /\ LET i == row_no + 1
           outcome == read_row(csv_header, csv_rows[i], i, variable_filters)
       IN  /\ load_pc' = IF outcome = "raise" THEN "raised" ELSE "read"
           /\ filtered_clips' =
                 IF outcome = "match"
                 THEN Append(filtered_clips,
                             clip_data_of(csv_header, csv_rows[i], i, variable_filters))
                 ELSE filtered_clips
    /\ UNCHANGED <<csv_header, csv_rows, variable_filters, load_entry,
                   clip_inventory, nested_data, loaded_category_data,
                   export_sequence, exported_rows, generator_call, analyzer_vars,
                   other_modules>>

\* After the last line: _build_nested_structure, then the return of
\* load_clips_from_csv_flexible.
LoaderBuild ==
    /\ load_pc = "read"
    /\ row_no = Len(csv_rows)
    /\ LET built == build_nested_structure(
                        filtered_clips, 1, variable_names(variable_filters),
                        create_nested_dict(variable_filters, 1), <<>>)
       IN  /\ nested_data' = built.nested_data
           /\ clip_inventory' = built.clip_inventory
    /\ load_pc' = IF load_entry = "load_clips_from_csv" THEN "convert" ELSE "loaded"
    /\ UNCHANGED <<csv_header, csv_rows, variable_filters, load_entry, row_no,
                   filtered_clips, loaded_category_data, export_sequence,
                   exported_rows, generator_call, analyzer_vars,
                   other_modules>>

\* load_clips_from_csv after the flexible load: the old-format table.
LoaderConvert ==
    /\ load_pc = "convert"
    /\ loaded_category_data' = convert_to_category_data(nested_data, variable_filters)
    /\ load_pc' = "loaded"
    /\ UNCHANGED <<csv_header, csv_rows, variable_filters, load_entry, row_no,
                   filtered_clips, clip_inventory, nested_data, export_sequence,
                   exported_rows, generator_call, analyzer_vars,
                   other_modules>>

\* A key of the lookup as Python compares it: text values, integer ordinal.
python_key(key) ==
    [l \in 1..Len(key) |-> IF l = Len(key) THEN [int |-> key[l]] ELSE [str |-> key[l]]]

\* 'key in self.clip_inventory' of export_sequence_to_csv, whose key is
\* (category, variation, item_id) with the integer colour index in the middle.
old_format_key_in_inventory(inventory, category, variation, item_id) ==
    <<[str |-> category], [int |-> variation], [int |-> item_id]>>
        \in {python_key(key) : key \in DOMAIN inventory}

\* One row of export_sequence_to_csv; the fallback name is
\* f"{category}_item{item_id:02d}_{color}".
old_format_row(inventory, colors, item, item_no) ==
    LET category == item[1]
        item_id == item[2]
        variation == item[3]
    IN  IF old_format_key_in_inventory(inventory, category, variation, item_id)
        THEN LET clip_data == inventory[CHOOSE key \in DOMAIN inventory :
                                  python_key(key) = <<[str |-> category],
                                                      [int |-> variation],
                                                      [int |-> item_id]>>]
             IN  [item_no |-> item_no, name |-> [clip |-> clip_data.name],
                  link |-> clip_data.link]
        ELSE [item_no |-> item_no,
              name |-> [fallback |-> <<category>>, item |-> item_id,
                        color |-> colors[variation]],
              link |-> ""]

export_sequence_to_csv(inventory, colors, seq) ==
    [item_no \in 1..Len(seq) |-> old_format_row(inventory, colors, seq[item_no], item_no)]

\* One row of export_sequence_to_csv_flexible; the fallback name is the
\* values joined by "_" followed by f"_item{item_id:02d}".
flexible_row(inventory, item_tuple, item_no) ==
    LET variable_values == SubSeq(item_tuple, 1, Len(item_tuple) - 1)
        item_id == item_tuple[Len(item_tuple)]
    IN  IF item_tuple \in DOMAIN inventory
        THEN [item_no |-> item_no, name |-> [clip |-> inventory[item_tuple].name],
              link |-> inventory[item_tuple].link, values |-> variable_values]
        ELSE [item_no |-> item_no,
              name |-> [fallback |-> variable_values, item |-> item_id],
              link |-> "", values |-> variable_values]

\* Variant of the exporter that gives up at the first key it cannot find.
export_until_missing_key(inventory, seq) ==
    LET missing == {k \in 1..Len(seq) : seq[k] \notin DOMAIN inventory}
        written == IF missing = {} THEN Len(seq)
                   ELSE (CHOOSE k \in missing : \A m \in missing : k <= m) - 1
    IN  [item_no \in 1..written |-> flexible_row(inventory, seq[item_no], item_no)]

export_sequence_to_csv_flexible(inventory, seq) ==
    [item_no \in 1..Len(seq) |-> flexible_row(inventory, seq[item_no], item_no)]

\* Sequences without repetition, as the builders produce them.
DistinctSeqs(S, n) ==
    {q \in SeqsUpTo(S, n) : \A i, j \in 1..Len(q) : i # j => q[i] # q[j]}

\* An item the loader did not produce: the next ordinal of the first leaf.
foreign_item(data, filters) ==
    LET first_path == [l \in 1..Len(filters) |-> filters[l].values[1]]
    IN  Append(first_path, count_at(data, first_path) + 1)

\* The item tuples generate_sequence draws from the old-format table:
\* (category, item_id, variation).
old_format_items(table) ==
    UNION {UNION {{<<category, item_id, variation>> :
                      item_id \in 1..table[category][variation]} :
                  variation \in DOMAIN table[category]} :
           category \in DOMAIN table}

\* export_sequence_to_csv_flexible on a sequence over the loaded items.
ExportFlexible ==
    /\ load_pc = "loaded"
    /\ \E seq \in DistinctSeqs(Range(flattened_items(nested_data, variable_filters))
                                  \cup {foreign_item(nested_data, variable_filters)},
                               MaxExported) :
          /\ export_sequence' = seq
          /\ exported_rows' = export_sequence_to_csv_flexible(clip_inventory, seq)
    /\ load_pc' = "exported_flexible"
    /\ UNCHANGED <<csv_header, csv_rows, variable_filters, load_entry, row_no,
                   filtered_clips, clip_inventory, nested_data,
                   loaded_category_data, generator_call, analyzer_vars,
                   other_modules>>

\* export_sequence_to_csv on a sequence over the old-format table.
ExportOldFormat ==
    /\ load_pc = "loaded"
    /\ load_entry = "load_clips_from_csv"
    /\ \E seq \in DistinctSeqs(old_format_items(loaded_category_data), MaxExported) :
          /\ export_sequence' = seq
          /\ exported_rows' = export_sequence_to_csv(
                                  clip_inventory, index_color_map(variable_filters), seq)
    /\ load_pc' = "exported_old_format"
    /\ UNCHANGED <<csv_header, csv_rows, variable_filters, load_entry, row_no,
                   filtered_clips, clip_inventory, nested_data,
                   loaded_category_data, generator_call, analyzer_vars,
                   other_modules>>

LoaderNext ==
    \/ LoaderReadRow
    \/ LoaderBuild
    \/ LoaderConvert
    \/ ExportFlexible
    \/ ExportOldFormat

LoaderSpec == LoaderInit /\ [][LoaderNext]_vars

\* ------------------------------------------------ claims on the loader
Exported == load_pc \in {"exported_flexible", "exported_old_format"}

Built == load_pc \in {"convert", "loaded"} \/ Exported

\* The lookup key of an old-format item (category, item_id, variation).
lookup_key_of(item) ==
    <<item[1], index_color_map(variable_filters)[item[3]], item[2]>>

\* C13: every row exported for a sequence drawn from the loaded pool carries
\* the name and link of that item's lookup entry, on the flexible path and on
\* the category/color path; the synthesized name is not used.
C13_ExportResolvesFromLookup ==
    /\ (load_pc = "exported_flexible"
        /\ Range(export_sequence) \subseteq DOMAIN clip_inventory)
       => \A k \in 1..Len(export_sequence) :
             /\ exported_rows[k].name = [clip |-> clip_inventory[export_sequence[k]].name]
             /\ exported_rows[k].link = clip_inventory[export_sequence[k]].link
    /\ load_pc = "exported_old_format"
       => \A k \in 1..Len(export_sequence) :
             /\ lookup_key_of(export_sequence[k]) \in DOMAIN clip_inventory
             /\ exported_rows[k].name =
                    [clip |-> clip_inventory[lookup_key_of(export_sequence[k])].name]
             /\ exported_rows[k].link =
                    clip_inventory[lookup_key_of(export_sequence[k])].link

\* The leaf groups: one per combination of allowed values.
RECURSIVE LeafPaths(_, _)
LeafPaths(filters, level) ==
    IF level > Len(filters) THEN {<<>>}
    ELSE {<<v>> \o rest : v \in Range(filters[level].values),
                          rest \in LeafPaths(filters, level + 1)}

path_of(clip) ==
    [l \in 1..Len(variable_filters) |-> clip.vals[variable_filters[l].name]]

\* The position in filtered_clips of the k-th clip of a leaf group.
IsKthOfGroup(i, path, k) ==
    /\ path_of(filtered_clips[i]) = path
    /\ Cardinality({j \in 1..i : path_of(filtered_clips[j]) = path}) = k

\* C14: after the load, a leaf group with count c holds exactly the keys with
\* ordinals 1..c, the k-th matching row in encounter order is stored under
\* ordinal k with its own attribute values, and the flattened candidate list
\* holds exactly the keys of the lookup, each once.
C14_LoaderOrdinals ==
    Built =>
        LET paths == LeafPaths(variable_filters, 1)
            items == flattened_items(nested_data, variable_filters)
        IN  /\ DOMAIN clip_inventory =
                  UNION {{Append(path, k) : k \in 1..count_at(nested_data, path)} :
                         path \in paths}
            /\ \A path \in paths :
                  count_at(nested_data, path) =
                      Cardinality({i \in 1..Len(filtered_clips) :
                                      path_of(filtered_clips[i]) = path})
            /\ \A i \in 1..Len(filtered_clips) :
                  \A k \in 1..Len(filtered_clips) :
                      IsKthOfGroup(i, path_of(filtered_clips[i]), k)
                      => LET entry == clip_inventory[Append(path_of(filtered_clips[i]), k)]
                         IN  /\ entry.name = filtered_clips[i].name
                             /\ entry.link = filtered_clips[i].link
                             /\ entry.vals = filtered_clips[i].vals
            /\ Range(items) = DOMAIN clip_inventory
            /\ Len(items) = Cardinality(DOMAIN clip_inventory)

\* C14 witness: two rows of one leaf group were loaded, so ordinal 2 exists.
C14_Witness ==
    /\ load_pc = "loaded"
    /\ \E key \in DOMAIN clip_inventory :
          /\ key[Len(key)] = 2
          /\ clip_inventory[key].name = "clip2"

\* A line meets the filter: every schema attribute is a column of the header,
\* the line has a cell for it, and the stripped cell is an allowed value.
meets_filter(line, i) ==
    \A l \in 1..Len(variable_filters) :
        /\ variable_filters[l].name \in Range(csv_header)
        /\ ~is_none(csv_header, line, variable_filters[l].name)
        /\ strip(cell_text(line, i, variable_filters[l].name))
               \in Range(variable_filters[l].values)

\* C15: with a 'clip name' column in the file, the lines read so far that
\* meet the filter are exactly the clips kept, in order, and no line raises.
C15_FilterDropsSilently ==
    "clip name" \in Range(csv_header)
    => /\ load_pc # "raised"
       /\ LET kept == SelectSeq([i \in 1..row_no |-> i],
                                LAMBDA i : meets_filter(csv_rows[i], i))
          IN  /\ Len(filtered_clips) = Len(kept)
              /\ \A k \in 1..Len(kept) :
                    filtered_clips[k].name = strip(ClipNames[kept[k]])

\* C17: the flexible exporter writes one row per item, in order, numbered from
\* 1, with the item's attribute values; an item missing from the lookup gets
\* the synthesized name and an empty link, every other item its lookup entry.
C17_DefensiveExport ==
    load_pc = "exported_flexible"
    => /\ Len(exported_rows) = Len(export_sequence)
       /\ \A k \in 1..Len(export_sequence) :
             LET item == export_sequence[k]
                 row == exported_rows[k]
             IN  /\ row.item_no = k
                 /\ row.values = SubSeq(item, 1, Len(item) - 1)
                 /\ item \notin DOMAIN clip_inventory
                    => /\ row.name = [fallback |-> SubSeq(item, 1, Len(item) - 1),
                                      item |-> item[Len(item)]]
                       /\ row.link = ""
                 /\ item \in DOMAIN clip_inventory
                    => /\ row.name = [clip |-> clip_inventory[item].name]
                       /\ row.link = clip_inventory[item].link

\* C17 witness: the first exported item is missing from the lookup and the
\* second is resolved from it.
C17_Witness ==
    /\ load_pc = "exported_flexible"
    /\ Len(export_sequence) = 2
    /\ Len(exported_rows) = 2
    /\ export_sequence[1] \notin DOMAIN clip_inventory
    /\ export_sequence[2] \in DOMAIN clip_inventory
    /\ exported_rows[2].name = [clip |-> clip_inventory[export_sequence[2]].name]

MaxSimilarityLen == 2   \* length of a compared sequence
MaxSimilarityId == 2    \* item ids of the compared items

SimilarityItems == {<<c, item_id, 1>> : c \in {"a", "b"}, item_id \in 1..MaxSimilarityId}

\* repr() of a small integer.
repr_int(n) == <<"0", "1", "2", "3", "4", "5", "6", "7", "8", "9">>[n + 1]

\* repr() of an item tuple, as the pieces of its text: ('a', 1, 1).
repr_item(item) ==
    <<"(", "'", item[1], "'", ", ", repr_int(item[2]), ", ", repr_int(item[3]), ")">>

RECURSIVE repr_items(_)
repr_items(seq) ==
    IF seq = <<>> THEN <<>>
    ELSE IF Len(seq) = 1 THEN repr_item(seq[1])
    ELSE repr_item(seq[1]) \o <<", ">> \o repr_items(Tail(seq))

\* str(seq) of a list of tuples: [('a', 1, 1), ('b', 2, 1)].
str_of_list(seq) == <<"[">> \o repr_items(seq) \o <<"]">>

\* hashlib.md5(text).hexdigest(): a digest that tells any two of the texts
\* compared here apart.
md5_hexdigest(text) == [md5 |-> text]

\* Counter(seq)[item]
count_in(seq, item) == Cardinality({i \in 1..Len(seq) : seq[i] = item})

\* sum(f(x) for x in S)
RECURSIVE sum_over(_, _)
sum_over(S, f) ==
    IF S = {} THEN 0
    ELSE LET x == CHOOSE y \in S : TRUE IN f[x] + sum_over(S \ {x}, f)

\* calculate_sequence_similarity(seq1, seq2); a quotient is kept as its
\* numerator and denominator, a division by zero raises.
calculate_sequence_similarity(s1, s2) ==
    IF Len(s1) # Len(s2)
    THEN [called |-> TRUE, error |-> "Sequences have different lengths"]
    ELSE IF Len(s1) = 0
    THEN [called |-> TRUE, raised |-> "ZeroDivisionError"]
    ELSE LET exact_matches == Cardinality({i \in 1..Len(s1) : s1[i] = s2[i]})
             both == Range(s1) \cap Range(s2)
             common_items ==
                 sum_over(both, [item \in both |->
                                    Min(count_in(s1, item), count_in(s2, item))])
             categories1 == {s1[i][1] : i \in 1..Len(s1)}
             cat_count(seq, c) == Cardinality({i \in 1..Len(seq) : seq[i][1] = c})
             common_categories ==
                 sum_over(categories1, [c \in categories1 |->
                                           Min(cat_count(s1, c), cat_count(s2, c))])
             items_overlap == Cardinality(both)
             total_unique == Cardinality(Range(s1) \cup Range(s2))
             hash1 == md5_hexdigest(str_of_list(s1))
             hash2 == md5_hexdigest(str_of_list(s2))
         IN  [called |-> TRUE,
              positional_similarity |-> [num |-> exact_matches, den |-> Len(s1)],
              content_similarity |-> [num |-> common_items, den |-> Len(s1)],
              category_similarity |-> [num |-> common_categories, den |-> Len(s1)],
              unique_items_similarity |-> [num |-> items_overlap, den |-> total_unique],
              exact_duplicate |-> hash1 = hash2,
              common_items_count |-> common_items,
              unique_items_overlap |-> items_overlap,
              total_unique_items |-> total_unique]

SimilarityInit ==
    /\ seq1 \in SeqsUpTo(SimilarityItems, MaxSimilarityLen)
    /\ seq2 \in SeqsUpTo(SimilarityItems, MaxSimilarityLen)
    /\ similarity = NoSimilarity
    /\ target_categories = <<>>
    /\ category_data = <<>>
    /\ min_spacing = 0
    /\ sequence_length = 0
    /\ BuilderAtRest
    /\ AnalyzerIdle
    /\ LoaderIdle
    /\ JobManagerIdle
    /\ MediaIdle

CalculateSimilarity ==
    /\ similarity = NoSimilarity
    /\ similarity' = calculate_sequence_similarity(seq1, seq2)
    /\ UNCHANGED <<seq1, seq2, generator_call, analyzer_vars, loader_vars, job_vars,
                   media_vars>>

SimilarityNext == CalculateSimilarity

SimilaritySpec == SimilarityInit /\ [][SimilarityNext]_vars

\* C18: for two sequences of equal length the call returns a report whose
\* exact_duplicate is true exactly when the sequences are equal element for
\* element, which is exactly when positional_similarity is 1.
C18_ExactDuplicateFlag ==
    (similarity.called /\ Len(seq1) = Len(seq2))
    => /\ "raised" \notin DOMAIN similarity
       /\ "error" \notin DOMAIN similarity
       /\ similarity.exact_duplicate <=> (seq1 = seq2)
       /\ (seq1 = seq2) <=>
              (similarity.positional_similarity.num = similarity.positional_similarity.den)

\* ======================================================= job manager
\* JobManager of job_manager.py: create_job, submit_job, execute_job and
\* cancel_job of one manager on an empty persistence directory. Each
\* execute_job coroutine is a task; a step runs from one await to the next.
MaxJobs == 2             \* jobs created
MaxTasks == 3            \* execute_job coroutines started
MaxConcurrentJobs == 1   \* largest max_concurrent_jobs tried
MaxManagementCalls == 1  \* calls of cancel_job and cleanup_old_jobs together

JobIds == 1..MaxJobs

TaskIds == 1..MaxTasks

TerminalStatuses == {"completed", "failed", "cancelled"}

NoTask == [pc |-> "unused", job |-> 0]

\* JobInfo as create_job builds it.
NewJobInfo ==
    [status |-> "pending", started_at |-> FALSE, completed_at |-> FALSE,
     progress |-> 0, result |-> FALSE, error |-> ""]

\* Variant of the semaphore that admits every caller.
can_acquire_always(value) == TRUE

\* asyncio.Semaphore: a caller passes while the counter is positive.
can_acquire(value) == value > 0

\* Variant of the exit of 'async with' that keeps the slot.
release_never(value) == value

\* asyncio.Semaphore.release, run when 'async with' is left on any path.
release(value) == value + 1

\* The coroutine a new call runs as: coroutines are numbered as they start.
next_task == CHOOSE t \in TaskIds :
                /\ tasks[t].pc = "unused"
                /\ \A u \in TaskIds : tasks[u].pc = "unused" => t <= u

\* Variant of the finally clause that leaves the entry in place.
remove_key_never(f, k) == f

\* 'del self.running_tasks[job_id]' when the key is there.
remove_key(f, k) == [x \in DOMAIN f \ {k} |-> f[x]]

\* The ids a caller passes: those create_job has handed out, and one id that
\* was never handed out.
CallableJobIds == {j \in JobIds : j <= jobs_created + 1}

JobInit ==
    /\ max_concurrent_jobs \in 1..MaxConcurrentJobs
    /\ jobs = <<>>
    /\ job_semaphore = max_concurrent_jobs
    /\ tasks = [t \in TaskIds |-> NoTask]
    /\ running_tasks = <<>>
    /\ call_result = [calls |-> 0, op |-> "none"]
    /\ jobs_created = 0
    /\ target_categories = <<>>
    /\ category_data = <<>>
    /\ min_spacing = 0
    /\ sequence_length = 0
    /\ BuilderAtRest
    /\ AnalyzerIdle
    /\ LoaderIdle
    /\ SimilarityIdle
    /\ MediaIdle

\* What the calls other than execute_job returned.
job_calls == <<call_result>>

outside_job_manager == <<generator_call, analyzer_vars, loader_vars, similarity_vars,
                         media_vars>>

\* create_job: a new id, status PENDING, stored and saved.
CreateJob ==
    /\ jobs_created < MaxJobs
    /\ jobs_created' = jobs_created + 1
    /\ jobs' = (jobs_created + 1 :> NewJobInfo) @@ jobs
    /\ UNCHANGED <<max_concurrent_jobs, job_semaphore, tasks, running_tasks,
                   job_calls, outside_job_manager>>

\* Variant of the checks of execute_job that lets a known job pass whatever
\* its status.
job_rejected_when_unknown(job_map, j) == j \notin DOMAIN job_map

\* The two checks of execute_job: 'job_id not in self.jobs' and
\* 'job_info.status != JobStatus.PENDING', each raising ValueError.
job_rejected(job_map, j) ==
    j \notin DOMAIN job_map \/ job_map[j].status # "pending"

\* The writes of execute_job go to its local job_info, the JobInfo object it
\* read from self.jobs at its first line; they show in self.jobs while that
\* object is still stored there.
job_started(job_map, j) ==
    IF j \in DOMAIN job_map
    THEN [job_map EXCEPT ![j].status = "running", ![j].started_at = TRUE]
    ELSE job_map

job_completed(job_map, j) ==
    IF j \in DOMAIN job_map
    THEN [job_map EXCEPT ![j].status = "completed", ![j].completed_at = TRUE,
                         ![j].progress = 100, ![j].result = TRUE]
    ELSE job_map

job_failed(job_map, j) ==
    IF j \in DOMAIN job_map
    THEN [job_map EXCEPT ![j].status = "failed", ![j].completed_at = TRUE,
                         ![j].error = "job function raised"]
    ELSE job_map

\* execute_job from its first line to its first await: the two checks, then
\* 'async with self.job_semaphore', which is passed at once when a slot is
\* free (the job becomes RUNNING and job_function is awaited) and suspends
\* the coroutine otherwise.
EnterExecuteJob(t, j) ==
    IF job_rejected(jobs, j)
    THEN /\ tasks' = [tasks EXCEPT ![t] = [pc |-> "raised", job |-> j]]
         /\ UNCHANGED <<jobs, job_semaphore>>
    ELSE IF can_acquire(job_semaphore)
    THEN /\ job_semaphore' = job_semaphore - 1
         /\ jobs' = job_started(jobs, j)
         /\ tasks' = [tasks EXCEPT ![t] = [pc |-> "running", job |-> j]]
    ELSE /\ tasks' = [tasks EXCEPT ![t] = [pc |-> "waiting", job |-> j]]
         /\ UNCHANGED <<jobs, job_semaphore>>

\* 'await manager.execute_job(job_id, job_function)' called directly.
ExecuteJob ==
    /\ \E t \in TaskIds : tasks[t].pc = "unused"
    /\ \E j \in CallableJobIds : EnterExecuteJob(next_task, j)
    /\ UNCHANGED <<max_concurrent_jobs, running_tasks, jobs_created, job_calls,
                   outside_job_manager>>

\* submit_job: create_job, then create_task(execute_job(...)) registered in
\* running_tasks; the task starts at a later turn of the event loop.
SubmitJob ==
    /\ jobs_created < MaxJobs
    /\ \E t \in TaskIds : tasks[t].pc = "unused"
    /\ jobs_created' = jobs_created + 1
    /\ LET job_id == jobs_created + 1
       IN  /\ jobs' = (job_id :> NewJobInfo) @@ jobs
           /\ tasks' = [tasks EXCEPT ![next_task] = [pc |-> "created", job |-> job_id]]
           /\ running_tasks' = (job_id :> next_task) @@ running_tasks
    /\ UNCHANGED <<max_concurrent_jobs, job_semaphore, job_calls, outside_job_manager>>

\* The event loop starts a task made by submit_job.
TaskStart ==
    /\ \E t \in TaskIds :
          /\ tasks[t].pc = "created"
          /\ EnterExecuteJob(t, tasks[t].job)
    /\ UNCHANGED <<max_concurrent_jobs, running_tasks, jobs_created, job_calls,
                   outside_job_manager>>

\* A coroutine suspended at 'async with self.job_semaphore' gets a slot:
\* RUNNING, started_at, saved, job_function awaited.
AcquireSemaphore ==
    /\ \E t \in TaskIds :
          /\ tasks[t].pc = "waiting"
          /\ can_acquire(job_semaphore)
          /\ job_semaphore' = job_semaphore - 1
          /\ jobs' = job_started(jobs, tasks[t].job)
          /\ tasks' = [tasks EXCEPT ![t].pc = "running"]
    /\ UNCHANGED <<max_concurrent_jobs, running_tasks, jobs_created, job_calls,
                   outside_job_manager>>

\* job_function returns: COMPLETED, completed_at, progress 100, result; the
\* finally clause, the release of the semaphore, the normal return.
JobFunctionReturns ==
    /\ \E t \in TaskIds :
          /\ tasks[t].pc = "running"
          /\ jobs' = job_completed(jobs, tasks[t].job)
          /\ running_tasks' = remove_key(running_tasks, tasks[t].job)
          /\ tasks' = [tasks EXCEPT ![t].pc = "done"]
    /\ job_semaphore' = release(job_semaphore)
    /\ UNCHANGED <<max_concurrent_jobs, jobs_created, job_calls, outside_job_manager>>

\* job_function raises: FAILED, completed_at, error; finally, release, the
\* exception leaves execute_job.
JobFunctionRaises ==
    /\ \E t \in TaskIds :
          /\ tasks[t].pc = "running"
          /\ jobs' = job_failed(jobs, tasks[t].job)
          /\ running_tasks' = remove_key(running_tasks, tasks[t].job)
          /\ tasks' = [tasks EXCEPT ![t].pc = "raised"]
    /\ job_semaphore' = release(job_semaphore)
    /\ UNCHANGED <<max_concurrent_jobs, jobs_created, job_calls, outside_job_manager>>

\* cancel_job(job_id): False for an unknown job, for a job that is not
\* RUNNING and for a RUNNING job without a task in running_tasks; otherwise
\* task.cancel() and 'await task', then True. CancelledError reaches the task
\* where it is suspended: inside the try (CANCELLED, completed_at, finally,
\* release), or at the semaphore or before its first step (the task ends,
\* nothing else changes). A task that already ended with the ValueError of
\* execute_job hands that exception to 'await task', which leaves cancel_job.
CancelJob ==
    /\ call_result.calls < MaxManagementCalls
    /\ \E j \in CallableJobIds :
          IF j \notin DOMAIN jobs \/ jobs[j].status # "running"
             \/ j \notin DOMAIN running_tasks
          THEN /\ call_result' = [calls |-> call_result.calls + 1,
                                  op |-> "cancel_job", job |-> j,
                                  returned |-> "False"]
               /\ UNCHANGED <<jobs, tasks, running_tasks, job_semaphore>>
          ELSE LET t == running_tasks[j]
               IN  /\ call_result' =
                          [calls |-> call_result.calls + 1,
                           op |-> "cancel_job", job |-> j,
                           returned |-> IF tasks[t].pc = "raised"
                                        THEN "ValueError" ELSE "True"]
                   /\ tasks' = IF tasks[t].pc \in {"running", "waiting", "created"}
                               THEN [tasks EXCEPT ![t].pc = "cancelled"]
                               ELSE tasks
                   /\ IF tasks[t].pc = "running"
                      THEN /\ jobs' = [jobs EXCEPT ![j].status = "cancelled",
                                                   ![j].completed_at = TRUE,
                                                   ![j].error = "Job was cancelled"]
                           /\ running_tasks' = remove_key(running_tasks, j)
                           /\ job_semaphore' = release(job_semaphore)
                      ELSE UNCHANGED <<jobs, running_tasks, job_semaphore>>
    /\ UNCHANGED <<max_concurrent_jobs, jobs_created, outside_job_manager>>

\* Variant of the selection that looks at the age only.
jobs_to_remove_by_age(job_map, cutoff) == {j \in DOMAIN job_map : j <= cutoff}

\* The jobs cleanup_old_jobs collects: terminal status and 'created_at <
\* cutoff_date'. Job ids are handed out in the order of creation, so the jobs
\* created before the cutoff date are the ids up to some number.
jobs_to_remove(job_map, cutoff) ==
    {j \in DOMAIN job_map : job_map[j].status \in TerminalStatuses /\ j <= cutoff}

\* cleanup_old_jobs(max_age_days): deletes the collected jobs from self.jobs
\* (and their files) and returns their number; running_tasks is not touched.
\* The cutoff date lies before some of the jobs created so far and after the
\* others.
CleanupOldJobs ==
    /\ call_result.calls < MaxManagementCalls
    /\ \E cutoff \in 0..jobs_created :
          LET removed == jobs_to_remove(jobs, cutoff)
          IN  /\ jobs' = [j \in DOMAIN jobs \ removed |-> jobs[j]]
              /\ call_result' = [calls |-> call_result.calls + 1,
                                 op |-> "cleanup_old_jobs", cutoff |-> cutoff,
                                 count |-> Cardinality(removed)]
    /\ UNCHANGED <<max_concurrent_jobs, job_semaphore, tasks, running_tasks,
                   jobs_created, outside_job_manager>>

JobNext ==
    \/ CleanupOldJobs
    \/ CreateJob
    \/ ExecuteJob
    \/ SubmitJob
    \/ TaskStart
    \/ AcquireSemaphore
    \/ JobFunctionReturns
    \/ JobFunctionRaises
    \/ CancelJob

JobSpec == JobInit /\ [][JobNext]_vars

\* The event loop runs every task that is ready: a task made by submit_job is
\* started, a coroutine suspended at the semaphore is resumed once a slot is
\* free, and every job function that was awaited returns or raises.
JobFairSpec ==
    /\ JobInit
    /\ [][JobNext]_vars
    /\ WF_vars(TaskStart)
    /\ WF_vars(AcquireSemaphore)
    /\ WF_vars(JobFunctionReturns \/ JobFunctionRaises)

\* ------------------------------------------------ claims on the job manager
RunningJobs == {j \in DOMAIN jobs : jobs[j].status = "running"}

\* C19: a job is created PENDING; a change of status is PENDING to RUNNING or
\* RUNNING to COMPLETED, FAILED or CANCELLED, so a terminal status stays; when
\* execute_job returns normally its job is COMPLETED with result, started_at
\* and completed_at set and progress 100.
C19_JobLifecycle ==
    [][/\ \A j \in DOMAIN jobs' \ DOMAIN jobs : jobs'[j].status = "pending"
       /\ \A j \in DOMAIN jobs :
             (j \in DOMAIN jobs' /\ jobs'[j].status # jobs[j].status)
             => \/ jobs[j].status = "pending" /\ jobs'[j].status = "running"
                \/ jobs[j].status = "running" /\ jobs'[j].status \in TerminalStatuses
       /\ \A t \in TaskIds :
             (tasks[t].pc # "done" /\ tasks'[t].pc = "done"
              /\ tasks'[t].job \in DOMAIN jobs')
             => LET job_info == jobs'[tasks'[t].job]
                IN  /\ job_info.status = "completed"
                    /\ job_info.result
                    /\ job_info.started_at
                    /\ job_info.completed_at
                    /\ job_info.progress = 100]_vars

\* C20: the number of RUNNING jobs never exceeds max_concurrent_jobs, and a
\* PENDING job becomes RUNNING only in a step that starts with fewer than
\* max_concurrent_jobs RUNNING jobs and a free slot of the semaphore.
C20_ConcurrencyLimit ==
    /\ [](/\ Cardinality(RunningJobs) <= max_concurrent_jobs
          /\ job_semaphore >= 0
          /\ Cardinality(RunningJobs) <= max_concurrent_jobs - job_semaphore)
    /\ [][\A j \in DOMAIN jobs :
             (jobs[j].status = "pending" /\ jobs'[j].status = "running")
             => /\ Cardinality(RunningJobs) < max_concurrent_jobs
                /\ job_semaphore > 0]_vars

\* C20 witness: max_concurrent_jobs jobs are RUNNING, no slot is free, and a
\* further job is PENDING with its coroutine suspended at the semaphore.
C20_Witness ==
    /\ max_concurrent_jobs = MaxConcurrentJobs
    /\ Cardinality(RunningJobs) = max_concurrent_jobs
    /\ job_semaphore = 0
    /\ \E t \in DOMAIN tasks :
          /\ tasks[t].pc = "waiting"
          /\ tasks[t].job \in DOMAIN jobs
          /\ jobs[tasks[t].job].status = "pending"

\* C21: a call of cancel_job for a RUNNING job returns True and leaves the job
\* CANCELLED with completed_at set; a call for an unknown job or a job that is
\* not RUNNING returns False and changes nothing.
C21_CancelResult ==
    [][(call_result'.calls # call_result.calls /\ call_result'.op = "cancel_job")
       => LET j == call_result'.job
          IN  IF j \in DOMAIN jobs /\ jobs[j].status = "running"
              THEN /\ call_result'.returned = "True"
                   /\ jobs'[j].status = "cancelled"
                   /\ jobs'[j].completed_at
              ELSE /\ call_result'.returned = "False"
                   /\ UNCHANGED <<jobs, tasks, running_tasks, job_semaphore>>]_vars

\* A coroutine takes the first step of execute_job for job j.
EntersExecuteJob(t) ==
    /\ tasks[t].pc \in {"unused", "created"}
    /\ tasks'[t].pc \in {"raised", "running", "waiting"}

\* C25: execute_job for an unknown job or a job that is not PENDING raises
\* ValueError without taking a slot of the semaphore and leaves every job as
\* it was; for a PENDING job it does not raise.
C25_ExecuteJobRejects ==
    [][\A t \in TaskIds :
          EntersExecuteJob(t)
          => LET j == tasks'[t].job
             IN  IF j \notin DOMAIN jobs \/ jobs[j].status # "pending"
                 THEN /\ tasks'[t].pc = "raised"
                      /\ jobs' = jobs
                      /\ job_semaphore' = job_semaphore
                      /\ running_tasks' = running_tasks
                 ELSE tasks'[t].pc \in {"running", "waiting"}]_vars

\* C25 witness: a second call for job 1, which was no longer PENDING, and a
\* call for the unknown job 2 were rejected; job 1 finished with its result
\* and every slot is free.
C25_Witness ==
    /\ tasks[2].pc = "raised"
    /\ tasks[3].pc = "raised"
    /\ tasks[2].job = 1
    /\ tasks[3].job = 2
    /\ tasks[1] = [pc |-> "done", job |-> 1]
    /\ 2 \notin DOMAIN jobs
    /\ jobs[1].status = "completed"
    /\ jobs[1].result
    /\ job_semaphore = max_concurrent_jobs

\* get_stats()['running_jobs'] = len(self.running_tasks)
running_jobs_stat == Cardinality(DOMAIN running_tasks)

\* C29: a job that is COMPLETED, FAILED or CANCELLED has no entry in
\* running_tasks, so running_jobs of get_stats counts PENDING and RUNNING
\* jobs only.
C29_RunningTasksConsistent ==
    /\ \A j \in DOMAIN jobs :
          jobs[j].status \in TerminalStatuses => j \notin DOMAIN running_tasks
    /\ running_jobs_stat <=
           Cardinality({j \in DOMAIN jobs : jobs[j].status \in {"pending", "running"}})

\* C29 witness: a submitted job finished while another submitted job is
\* still registered.
C29_Witness ==
    /\ \E j \in DOMAIN jobs :
          /\ jobs[j].status \in TerminalStatuses
          /\ \E t \in TaskIds : tasks[t] = [pc |-> "done", job |-> j]
    /\ running_jobs_stat = 1
    /\ \E t \in TaskIds : tasks[t].pc = "created"

\* C26: a call of cleanup_old_jobs removes exactly the jobs that are in a
\* terminal status and older than the cutoff; every PENDING or RUNNING job
\* and every job newer than the cutoff stays in the map unchanged, and the
\* returned count is the number of jobs removed.
C26_CleanupFrame ==
    [][(call_result'.calls # call_result.calls
        /\ call_result'.op = "cleanup_old_jobs")
       => LET removed == DOMAIN jobs \ DOMAIN jobs'
              cutoff == call_result'.cutoff
          IN  /\ DOMAIN jobs' \subseteq DOMAIN jobs
              /\ \A j \in removed :
                    jobs[j].status \in TerminalStatuses /\ j <= cutoff
              /\ \A j \in DOMAIN jobs :
                    (jobs[j].status \in {"pending", "running"} \/ j > cutoff)
                    => (j \in DOMAIN jobs' /\ jobs'[j] = jobs[j])
              /\ \A j \in DOMAIN jobs' : jobs'[j] = jobs[j]
              /\ call_result'.count = Cardinality(removed)]_vars

\* C26 witness: one call removed an old finished job and kept an old job
\* that was PENDING or RUNNING.
C26_Witness ==
    /\ call_result.op = "cleanup_old_jobs"
    /\ call_result.count = 1
    /\ call_result.cutoff = 2
    /\ jobs_created = 2
    /\ DOMAIN jobs = {2}
    /\ jobs[2].status \in {"pending", "running"}

\* The coroutines inside 'async with self.job_semaphore'.
SlotHolders == {t \in TaskIds : tasks[t].pc = "running"}

\* C28: when the event loop runs and every job function returns or raises,
\* every job registered by submit_job eventually is COMPLETED, FAILED or
\* CANCELLED; the slots taken are exactly those of the coroutines inside the
\* 'async with' block, so a slot is released on every way out of it; and a
\* coroutine suspended at the semaphore does not stay there for ever.
C28_JobProgress ==
    /\ [](job_semaphore = max_concurrent_jobs - Cardinality(SlotHolders))
    /\ \A j \in JobIds :
          (j \in DOMAIN running_tasks)
          ~> (j \notin DOMAIN jobs \/ jobs[j].status \in TerminalStatuses)
    /\ \A t \in TaskIds : (tasks[t].pc = "waiting") ~> (tasks[t].pc # "waiting")

\* C28 witness: of two submitted jobs one was cancelled while it ran and the
\* other, which had to wait for the slot or for its turn, finished; every
\* slot is free again and nothing is registered.
C28_Witness ==
    /\ call_result.op = "cancel_job"
    /\ call_result.returned = "True"
    /\ jobs_created = 2
    /\ DOMAIN jobs = {1, 2}
    /\ \E j \in {1, 2} :
          /\ jobs[j].status = "cancelled"
          /\ jobs[3 - j].status \in {"completed", "failed"}
    /\ \A t \in {1, 2} : tasks[t].pc \in {"done", "raised", "cancelled"}
    /\ tasks[3].pc = "unused"
    /\ job_semaphore = max_concurrent_jobs
    /\ running_tasks = <<>>

\* C30: when the report of analyze_feasibility names no bottleneck, its
\* total_available is at least sequence_length; so a call of
\* generate_sequence that passed the feasibility check never raises 'Not
\* enough total items', and when it raises it has used up max_attempts.
C30_NoBottleneckImpliesSupply ==
    (builder = "generate_sequence" /\ feasibility.called
     /\ feasibility.bottleneck_categories = {})
    => /\ feasibility.all_categories_feasible
       /\ feasibility.total_available >= sequence_length
       /\ Cardinality(generate_available_items(category_data, target_categories,
                                               AllowedVariations))
              >= sequence_length
       /\ error # "ValueError: Not enough total items"
       /\ error # "ValueError: Sequence not feasible"
       /\ pc = "raised" => (error = "RuntimeError" /\ attempt = max_attempts)

\* C30 witness: a request over two primary values whose supply is exactly
\* sequence_length passed the feasibility check and failed by using up its
\* attempts.
C30_Witness ==
    /\ builder = "generate_sequence"
    /\ feasibility.called
    /\ feasibility.bottleneck_categories = {}
    /\ Len(target_categories) = 2
    /\ feasibility.total_available = sequence_length
    /\ sequence_length = MaxLen
    /\ pc = "raised"
    /\ error = "RuntimeError"
    /\ attempt = max_attempts

\* ======================================================= batch downloads
\* BatchVideoProcessor of batch_video_processor.py: download_video_from_drive
\* with its retries, and the loop of test_exponential_backoff.py. The
\* processor handles one video at a time (process_all_videos is a plain
\* loop), so one call is under way at most. A step runs from one outcome of
\* gdown.download to the next.
MaxFileIds == 2          \* file ids asked for
MaxDownloadCalls == 3    \* calls of download_video_from_drive and rounds of the test loop
BatchSize == 2           \* the batch_size argument of the processor

FileIds == 1..MaxFileIds

\* self.failure_backoff_minutes
failure_backoff_minutes == <<5, 10, 15, 20>>

\* self.retry_attempts.get(file_id, 0)
attempts_of(attempts, file_id) ==
    IF file_id \in DOMAIN attempts THEN attempts[file_id] ELSE 0

\* Variant of the test that always allows another retry.
should_retry_always(attempts, file_id) == TRUE

\* should_retry_failed_download
should_retry_failed_download(attempts, file_id) ==
    attempts_of(attempts, file_id) < Len(failure_backoff_minutes)

\* handle_download_failure: the count goes up by one; within the schedule
\* the wait of that attempt is slept and True returned, beyond it the id is
\* added to failed_downloads and False returned.
handle_download_failure(attempts, failed, file_id) ==
    LET n == attempts_of(attempts, file_id) + 1
        counted == (file_id :> n) @@ attempts
    IN  IF n <= Len(failure_backoff_minutes)
        THEN [retry_attempts |-> counted, failed_downloads |-> failed,
              waited |-> <<failure_backoff_minutes[n]>>, should_retry |-> TRUE]
        ELSE [retry_attempts |-> counted,
              failed_downloads |-> failed \cup {file_id},
              waited |-> <<>>, should_retry |-> FALSE]

\* should_take_batch_pause and take_batch_pause before a download: the
\* counter of the batch is reset once it has reached batch_size.
after_batch_pause(in_batch) == IF in_batch >= BatchSize THEN 0 ELSE in_batch

DownloadInit ==
    /\ failed_downloads = {}
    /\ retry_attempts = <<>>
    /\ download_call = [pc |-> "idle", calls |-> 0, downloads_in_current_batch |-> 0]
    /\ target_categories = <<>>
    /\ category_data = <<>>
    /\ min_spacing = 0
    /\ sequence_length = 0
    /\ BuilderAtRest
    /\ AnalyzerIdle
    /\ LoaderIdle
    /\ SimilarityIdle
    /\ JobManagerIdle
    /\ VariationIdle
    /\ VideoIdle

outside_downloader == <<generator_call, analyzer_vars, loader_vars, similarity_vars,
                        job_vars, variation_vars, video_vars>>

\* download_video_from_drive(file_id) up to its first gdown.download: None
\* at once for an id in failed_downloads, otherwise the batch pause, the
\* delay and the download.
DownloadVideoFromDrive ==
    /\ download_call.pc \in {"idle", "returned"}
    /\ download_call.calls < MaxDownloadCalls
    /\ \E file_id \in FileIds :
          download_call' =
              IF file_id \in failed_downloads
              THEN [pc |-> "returned", calls |-> download_call.calls + 1,
                    file_id |-> file_id, gdown_calls |-> 0, waited |-> <<>>,
                    returned |-> "None",
                    downloads_in_current_batch |->
                        download_call.downloads_in_current_batch]
              ELSE [pc |-> "downloading", calls |-> download_call.calls + 1,
                    file_id |-> file_id, gdown_calls |-> 1, waited |-> <<>>,
                    downloads_in_current_batch |->
                        after_batch_pause(download_call.downloads_in_current_batch)]
    /\ UNCHANGED <<failed_downloads, retry_attempts, outside_downloader>>

\* gdown.download wrote the file: the path is returned.
GdownSucceeds ==
    /\ download_call.pc = "downloading"
    /\ download_call' =
           [download_call EXCEPT
               !.pc = "returned",
               !.downloads_in_current_batch = @ + 1] @@ [returned |-> "path"]
    /\ UNCHANGED <<failed_downloads, retry_attempts, outside_downloader>>

\* gdown.download left no file or raised: both branches ask
\* should_retry_failed_download, then either handle_download_failure and the
\* recursive call, which runs up to its own gdown.download, or the id goes
\* to failed_downloads and None is returned.
GdownFails ==
    /\ download_call.pc = "downloading"
    /\ LET file_id == download_call.file_id
       IN  IF should_retry_failed_download(retry_attempts, file_id)
           THEN LET h == handle_download_failure(retry_attempts, failed_downloads,
                                                 file_id)
                IN  /\ retry_attempts' = h.retry_attempts
                    /\ failed_downloads' = h.failed_downloads
                    /\ download_call' =
                           IF h.should_retry /\ file_id \notin h.failed_downloads
                           THEN [download_call EXCEPT
                                    !.gdown_calls = @ + 1,
                                    !.waited = @ \o h.waited,
                                    !.downloads_in_current_batch = after_batch_pause(@)]
                           ELSE [download_call EXCEPT !.pc = "returned"]
                                    @@ [returned |-> "None"]
           ELSE /\ failed_downloads' = failed_downloads \cup {file_id}
                /\ download_call' =
                       [download_call EXCEPT !.pc = "returned"] @@ [returned |-> "None"]
                /\ UNCHANGED retry_attempts
    /\ UNCHANGED outside_downloader

\* One round of the loop of test_exponential_backoff: handle_download_failure
\* is called when should_retry_failed_download allows it.
BackoffTestRound ==
    /\ download_call.pc \in {"idle", "returned"}
    /\ download_call.calls < MaxDownloadCalls
    /\ \E file_id \in FileIds :
          /\ should_retry_failed_download(retry_attempts, file_id)
          /\ LET h == handle_download_failure(retry_attempts, failed_downloads,
                                              file_id)
             IN  /\ retry_attempts' = h.retry_attempts
                 /\ failed_downloads' = h.failed_downloads
                 /\ download_call' =
                        [pc |-> "idle", calls |-> download_call.calls + 1,
                         downloads_in_current_batch |->
                             download_call.downloads_in_current_batch]
    /\ UNCHANGED outside_downloader

DownloadNext ==
    \/ DownloadVideoFromDrive
    \/ GdownSucceeds
    \/ GdownFails
    \/ BackoffTestRound

DownloadSpec == DownloadInit /\ [][DownloadNext]_vars

\* C22: retry_attempts of a file id never exceeds the length of
\* failure_backoff_minutes, and one call makes at most that many retries
\* after its first download, waiting along the schedule; a call that tried
\* and returned None has its id in failed_downloads; for an id in
\* failed_downloads should_retry_failed_download is false, and a call for it
\* returns None without a download and changes nothing.
C22_BoundedRetry ==
    /\ [](/\ \A file_id \in FileIds :
                /\ attempts_of(retry_attempts, file_id) <= Len(failure_backoff_minutes)
                /\ file_id \in failed_downloads
                   => ~should_retry_failed_download(retry_attempts, file_id)
          /\ download_call.pc \in {"downloading", "returned"}
             => /\ download_call.gdown_calls <= Len(failure_backoff_minutes) + 1
                /\ Len(download_call.waited) = Max(download_call.gdown_calls - 1, 0)
                /\ \A i \in 1..Len(download_call.waited) :
                      download_call.waited[i] \in Range(failure_backoff_minutes)
          /\ (download_call.pc = "returned" /\ download_call.returned = "None")
             => download_call.file_id \in failed_downloads)
    /\ [][\A file_id \in failed_downloads :
             (download_call'.calls # download_call.calls
              /\ download_call'.pc # "idle"
              /\ download_call'.file_id = file_id)
             => /\ download_call'.pc = "returned"
                /\ download_call'.returned = "None"
                /\ download_call'.gdown_calls = 0
                /\ UNCHANGED <<failed_downloads, retry_attempts>>]_vars

\* C22 witness: a download that failed five times in one call, after the
\* four waits of the schedule, put its id in failed_downloads, and the next
\* call for that id returned None without a download.
C22_Witness ==
    /\ download_call.pc = "returned"
    /\ download_call.calls = 2
    /\ download_call.returned = "None"
    /\ download_call.gdown_calls = 0
    /\ download_call.file_id \in failed_downloads
    /\ attempts_of(retry_attempts, download_call.file_id) = Len(failure_backoff_minutes)

\* ================================================ high-variation generator
\* HighVariationItemGenerator of item_generator_v2.py, built with the one
\* category "a", MaxVariationItems items of one variation and min_spacing
\* 0, so that generate_sequence returns the requested number of distinct
\* items in any order. One behaviour is one call of
\* generate_high_variation_sequence on a generator with some history.
MaxVariationItems == 5     \* items_per_category of the generator
MaxVariationLen == 4       \* sequence_length ranges over 1..MaxVariationLen
MaxVariationAttempts == 1  \* max_attempts is this number or ten times it

\* 'if len(self.previous_sequences) > 20'
HistoryLimit == 20

\* 'self.previous_sequences[-10:]'
RecentWindow == 10

\* self.max_similarity_threshold = 0.75
max_similarity_threshold == [num |-> 3, den |-> 4]

VariationItem(item_id) == <<"a", item_id, 1>>

\* The items first..last in rising order.
ItemRun(first, last) == [i \in 1..(last - first + 1) |-> VariationItem(first + i - 1)]

\* What generate_sequence(["a"], [1], L, attempts) can return: L distinct
\* items of the pool; it raises RuntimeError when it gets no attempt or the
\* pool is too small. Of the orders a shuffle can give, the rising and the
\* falling one are tried.
Candidates(L) ==
    LET rising == {s \in [1..L -> 1..MaxVariationItems] :
                      \A i \in 1..(L - 1) : s[i] < s[i + 1]}
    IN  UNION {{[i \in 1..L |-> VariationItem(s[i])],
                [i \in 1..L |-> VariationItem(s[L + 1 - i])]} : s \in rising}

\* a/b < c/d for quotients kept as numerator and denominator
less_than(x, y) == x.num * y.den < y.num * x.den

\* self.previous_sequences[-10:]
last_stored(history) ==
    SubSeq(history, Max(1, Len(history) - RecentWindow + 1), Len(history))

\* The loop over the last stored sequences: max() of the content_similarity
\* of each report, from 0.0. A stored sequence of another length gives a
\* report with the key 'error' only, and reading 'content_similarity' raises
\* KeyError.
max_similarity_to(candidate, history) ==
    LET sims == {calculate_sequence_similarity(candidate, prev) :
                    prev \in Range(last_stored(history))}
    IN  IF \E sim \in sims : "content_similarity" \notin DOMAIN sim
        THEN [raised |-> "KeyError"]
        ELSE IF sims = {}
        THEN [num |-> 0, den |-> 1]
        ELSE LET top == CHOOSE sim \in sims :
                            \A other \in sims :
                               ~less_than(sim.content_similarity,
                                          other.content_similarity)
             IN  top.content_similarity

\* _store_sequence_signature: append, then pop(0) beyond 20 entries.
store_sequence_signature(history, new_sequence) ==
    LET appended == Append(history, new_sequence)
    IN  IF Len(appended) > HistoryLimit THEN Tail(appended) ELSE appended

\* Variant of the acceptance test that takes every candidate.
acceptable_always(similarity_found) == TRUE

\* 'if max_similarity < self.max_similarity_threshold'
acceptable(similarity_found) == less_than(similarity_found, max_similarity_threshold)

\* The sequences a history is made of here: the first and the last
\* sequence_length items of the pool, and a sequence one item shorter, left
\* by a call with another sequence_length.
StoredChoices(L) == {ItemRun(1, L), ItemRun(MaxVariationItems - L + 1, MaxVariationItems),
                     ItemRun(1, L - 1)}

\* The histories a call starts from: nothing, one sequence, a full window,
\* one more, and up to the limit; the entries before the window are one
\* sequence, those of the window another.
Histories(L) ==
    {[i \in 1..h |-> IF i <= h - RecentWindow THEN old ELSE recent] :
        h \in {0, 1, RecentWindow, RecentWindow + 1, HistoryLimit - 1, HistoryLimit},
        old \in StoredChoices(L), recent \in StoredChoices(L)}

VariationInit ==
    /\ \E L \in 1..MaxVariationLen :
          /\ previous_sequences \in Histories(L)
          /\ variation_call \in
                 {[pc |-> "call", sequence_length |-> L, max_attempts |-> m,
                   ensure_variation |-> e, attempt |-> 0, best_sequence |-> <<>>,
                   lowest_similarity |-> [num |-> 1, den |-> 1]] :
                     m \in {MaxVariationAttempts, 10 * MaxVariationAttempts},
                     e \in BOOLEAN}
    /\ target_categories = <<>>
    /\ category_data = <<>>
    /\ min_spacing = 0
    /\ sequence_length = 0
    /\ BuilderAtRest
    /\ AnalyzerIdle
    /\ LoaderIdle
    /\ SimilarityIdle
    /\ JobManagerIdle
    /\ DownloaderIdle
    /\ VideoIdle

outside_variation == <<generator_call, analyzer_vars, loader_vars, similarity_vars,
                       job_vars, download_vars, video_vars>>

\* The call ends with an exception; nothing was stored.
VariationRaises(exc) ==
    /\ variation_call' = [variation_call EXCEPT !.pc = "raised"] @@ [error |-> exc]
    /\ UNCHANGED previous_sequences

\* The call stores the sequence and returns it.
VariationReturns(new_sequence) ==
    /\ variation_call' =
           [variation_call EXCEPT !.pc = "returned"] @@ [result |-> new_sequence]
    /\ previous_sequences' = store_sequence_signature(previous_sequences, new_sequence)

\* 'if not ensure_variation or len(self.previous_sequences) == 0': one
\* generate_sequence with max_attempts, stored and returned.
HighVariationFirstRun ==
    /\ variation_call.pc = "call"
    /\ ~variation_call.ensure_variation \/ Len(previous_sequences) = 0
    /\ \E candidate \in Candidates(variation_call.sequence_length) :
          VariationReturns(candidate)
    /\ UNCHANGED outside_variation

\* One round of 'for attempt in range(max_attempts)': a candidate from
\* generate_sequence with max_attempts // 10 attempts, its largest content
\* similarity to the last stored sequences, the test against the threshold,
\* the best candidate so far.
HighVariationAttempt ==
    /\ variation_call.pc \in {"call", "attempting"}
    /\ variation_call.ensure_variation /\ Len(previous_sequences) > 0
    /\ variation_call.attempt < variation_call.max_attempts
    /\ IF variation_call.max_attempts \div 10 = 0
       THEN VariationRaises("RuntimeError: Could not generate valid sequence")
       ELSE \E candidate \in Candidates(variation_call.sequence_length) :
               LET max_similarity == max_similarity_to(candidate, previous_sequences)
               IN  IF "raised" \in DOMAIN max_similarity
                   THEN VariationRaises(max_similarity.raised)
                   ELSE IF acceptable(max_similarity)
                   THEN VariationReturns(candidate)
                   ELSE /\ variation_call' =
                               IF less_than(max_similarity,
                                            variation_call.lowest_similarity)
                               THEN [variation_call EXCEPT
                                        !.pc = "attempting",
                                        !.attempt = @ + 1,
                                        !.lowest_similarity = max_similarity,
                                        !.best_sequence = candidate]
                               ELSE [variation_call EXCEPT
                                        !.pc = "attempting",
                                        !.attempt = @ + 1]
                        /\ UNCHANGED previous_sequences
    /\ UNCHANGED outside_variation

\* After the last round: the best candidate is stored and returned, or
\* RuntimeError when there is none.
HighVariationFallback ==
    /\ variation_call.pc \in {"call", "attempting"}
    /\ variation_call.ensure_variation /\ Len(previous_sequences) > 0
    /\ variation_call.attempt = variation_call.max_attempts
    /\ IF variation_call.best_sequence # <<>>
       THEN VariationReturns(variation_call.best_sequence)
       ELSE VariationRaises("RuntimeError: Could not generate sequence with acceptable variation")
    /\ UNCHANGED outside_variation

VariationNext ==
    \/ HighVariationFirstRun
    \/ HighVariationAttempt
    \/ HighVariationFallback

VariationSpec == VariationInit /\ [][VariationNext]_vars

\* A call with ensure_variation set, on a generator with stored sequences,
\* returns in this step.
VariationCallReturns ==
    /\ variation_call.pc \in {"call", "attempting"}
    /\ variation_call.ensure_variation
    /\ Len(previous_sequences) > 0
    /\ variation_call'.pc = "returned"

\* The content similarity of the sequence to each of the last stored
\* sequences is below the threshold.
BelowThreshold(new_sequence, history) ==
    \A prev \in Range(last_stored(history)) :
       LET sim == calculate_sequence_similarity(new_sequence, prev)
       IN  /\ "content_similarity" \in DOMAIN sim
           /\ less_than(sim.content_similarity, max_similarity_threshold)

MaxInputFiles == 3      \* length of input_files
MaxWorkers == 2         \* the max_workers argument ranges over 1..MaxWorkers

InputNames == {"a.mp4", "b.mov"}

\* f"{temp_prefix}_{i}.{target_format}" for the i-th input file, i from 0:
\* the name carries the index; the input it was made from is kept with it.
output_file_of(files, i) == [temp_clip |-> i - 1, converted_from |-> files[i]]

\* Variant of the collecting loop that takes the futures as they finish.
next_future_as_completed(collected, finished) ==
    IF Len(finished) > collected THEN finished[collected + 1] ELSE collected + 1

\* 'for future, output_file in futures': the future waited for next is the
\* next one submitted.
next_future(collected, finished) == collected + 1

\* 'if not converted_files' after convert_videos_parallel
conversion_step_failed(converted, files) == converted = <<>>

VideoInit ==
    /\ input_files \in SeqsUpTo(InputNames, MaxInputFiles)
    /\ futures = <<>>
    /\ converted_files = <<>>
    /\ video_call \in {[pc |-> "call", max_workers |-> w, collected |-> 0,
                        finished |-> <<>>] : w \in 1..MaxWorkers}
    /\ target_categories = <<>>
    /\ category_data = <<>>
    /\ min_spacing = 0
    /\ sequence_length = 0
    /\ BuilderAtRest
    /\ AnalyzerIdle
    /\ LoaderIdle
    /\ SimilarityIdle
    /\ JobManagerIdle
    /\ DownloaderIdle
    /\ VariationIdle

outside_video == <<generator_call, analyzer_vars, loader_vars, similarity_vars,
                   job_vars, download_vars, variation_vars>>

\* process_video_sequence returns.
VideoReturns(value) ==
    video_call' = [video_call EXCEPT !.pc = "returned"] @@ [result |-> value]

\* process_video_sequence up to the submission of the conversions: False at
\* once for an empty list; otherwise one future per input file, in order,
\* on min(max_workers, len(input_files)) workers.
ProcessVideoSequence ==
    /\ video_call.pc = "call"
    /\ IF input_files = <<>>
       THEN /\ VideoReturns(FALSE)
            /\ UNCHANGED futures
       ELSE /\ video_call' = [video_call EXCEPT
                                 !.pc = "converting",
                                 !.max_workers = Min(@, Len(input_files))]
            /\ futures' = [i \in 1..Len(input_files) |-> "queued"]
    /\ UNCHANGED <<input_files, converted_files, outside_video>>

\* A free worker takes the oldest conversion waiting.
WorkerTakes ==
    /\ video_call.pc = "converting"
    /\ Cardinality({i \in DOMAIN futures : futures[i] = "running"})
           < video_call.max_workers
    /\ \E i \in DOMAIN futures :
          /\ futures[i] = "queued"
          /\ \A j \in 1..(i - 1) : futures[j] # "queued"
          /\ futures' = [futures EXCEPT ![i] = "running"]
    /\ UNCHANGED <<input_files, converted_files, video_call, outside_video>>

\* convert_video_format: ffmpeg ended well, the output file name is the result.
ConversionSucceeds ==
    /\ \E i \in DOMAIN futures :
          /\ futures[i] = "running"
          /\ futures' = [futures EXCEPT ![i] = "converted"]
          /\ video_call' = [video_call EXCEPT !.finished = Append(@, i)]
    /\ UNCHANGED <<input_files, converted_files, outside_video>>

\* convert_video_format: CalledProcessError, the result is None.
ConversionFails ==
    /\ \E i \in DOMAIN futures :
          /\ futures[i] = "running"
          /\ futures' = [futures EXCEPT ![i] = "failed"]
          /\ video_call' = [video_call EXCEPT !.finished = Append(@, i)]
    /\ UNCHANGED <<input_files, converted_files, outside_video>>

\* future.result() of the next future of the loop: a converted file is
\* appended, a failed one skipped. After the last future
\* convert_videos_parallel returns; process_video_sequence returns False
\* when nothing was converted and otherwise calls concatenate_videos, which
\* writes the list file and runs ffmpeg.
CollectResult ==
    /\ video_call.pc = "converting"
    /\ video_call.collected < Len(futures)
    /\ LET i == next_future(video_call.collected, video_call.finished)
           collected_files ==
               IF futures[i] = "converted"
               THEN Append(converted_files, output_file_of(input_files, i))
               ELSE converted_files
           last == video_call.collected + 1 = Len(futures)
       IN  /\ futures[i] \in {"converted", "failed"}
           /\ converted_files' = collected_files
           /\ video_call' =
                  IF ~last
                  THEN [video_call EXCEPT !.collected = @ + 1]
                  ELSE IF conversion_step_failed(collected_files, input_files)
                  THEN [video_call EXCEPT !.collected = @ + 1, !.pc = "returned"]
                           @@ [result |-> FALSE]
                  ELSE [video_call EXCEPT !.collected = @ + 1, !.pc = "concatenating"]
                           @@ [concat_list |-> collected_files]
    /\ UNCHANGED <<input_files, futures, outside_video>>

\* concatenate_videos: ffmpeg ended well; True is returned.
ConcatenationSucceeds ==
    /\ video_call.pc = "concatenating"
    /\ video_call' = [video_call EXCEPT !.pc = "returned"]
                         @@ [result |-> TRUE, concatenated |-> TRUE]
    /\ UNCHANGED <<input_files, futures, converted_files, outside_video>>

\* concatenate_videos: the list file could not be written or ffmpeg failed;
\* False is returned.
ConcatenationFails ==
    /\ video_call.pc = "concatenating"
    /\ video_call' = [video_call EXCEPT !.pc = "returned"]
                         @@ [result |-> FALSE, concatenated |-> FALSE]
    /\ UNCHANGED <<input_files, futures, converted_files, outside_video>>

VideoNext ==
    \/ ProcessVideoSequence
    \/ WorkerTakes
    \/ ConversionSucceeds
    \/ ConversionFails
    \/ CollectResult
    \/ ConcatenationSucceeds
    \/ ConcatenationFails

VideoSpec == VideoInit /\ [][VideoNext]_vars

\* C24: process_video_sequence returns True only if every step succeeded:
\* the list is not empty, every input file was converted and the
\* concatenation succeeded; if one conversion failed, or the list is empty,
\* or the concatenation failed, it returns False.
C24_TrueOnlyIfAllSucceeded ==
    video_call.pc = "returned"
    => /\ video_call.result
          => /\ input_files # <<>>
             /\ \A i \in DOMAIN futures : futures[i] = "converted"
             /\ video_call.concatenated
       /\ (\/ input_files = <<>>
           \/ \E i \in DOMAIN futures : futures[i] = "failed"
           \/ ("concatenated" \in DOMAIN video_call /\ ~video_call.concatenated))
          => ~video_call.result

\* C27: the files convert_videos_parallel has collected are in the order of
\* their input files, whatever order the conversions finished in; once all
\* are collected they are exactly the converted ones, each made from its own
\* input file, and that list, in that order, is what is concatenated.
C27_InputOrder ==
    /\ \A k, l \in 1..Len(converted_files) :
          k < l => converted_files[k].temp_clip < converted_files[l].temp_clip
    /\ \A k \in 1..Len(converted_files) :
          LET i == converted_files[k].temp_clip + 1
          IN  /\ i \in 1..video_call.collected
              /\ futures[i] = "converted"
              /\ converted_files[k] = output_file_of(input_files, i)
    /\ \A i \in 1..Len(futures) :
          (i <= video_call.collected /\ futures[i] = "converted")
          => \E k \in 1..Len(converted_files) : converted_files[k].temp_clip = i - 1
    /\ "concat_list" \in DOMAIN video_call
       => /\ video_call.concat_list = converted_files
          /\ video_call.collected = Len(input_files)

\* C27 witness: of three conversions on two workers the second one failed
\* first, then the third one finished and the first one last; the first and
\* the third output were concatenated in that order.
C27_Witness ==
    /\ video_call.pc = "returned"
    /\ video_call.result
    /\ Len(input_files) = 3
    /\ video_call.finished = <<2, 3, 1>>
    /\ futures = <<"converted", "failed", "converted">>
    /\ video_call.concat_list =
           <<output_file_of(input_files, 1), output_file_of(input_files, 3)>>
====
